---- MODULE Spec2Model ----
(***************************************************************************)
(* Feed acquisition and normalization pipeline of the RSS reader          *)
(* (src/services/rssService.ts): relay rotation (fetchRawText), format    *)
(* classification and parsing (parseXmlFeed), feed discovery              *)
(* (getFeedUrlFromHtml), the conversion-service fallback                  *)
(* (fetchWithRss2Json) and the orchestrator (fetchFeed).                  *)
(*                                                                         *)
(* A text is a sequence of lexical fragments (the markers the code looks  *)
(* for, white space, the byte-order-mark, other characters) together with *)
(* what the browser's parsers make of it: the text/xml document or its    *)
(* parsererror, and the link elements of the text/html document.          *)
(***************************************************************************)
EXTENDS Integers, Sequences, FiniteSets, TLC

VARIABLES
    url,              \* fetchFeed: parameter url of the running frame
    feedId,           \* fetchFeed: parameter feedId of the running frame
    callUrl,          \* url the caller passed to the top-level fetchFeed
    callFeedId,       \* feedId the caller passed to the top-level fetchFeed
    pc,               \* position of the call
    relayIdx,         \* fetchRawText: index into PROXIES of the running attempt
    attempts,         \* fetchRawText: relay indices tried by this call, in order
    timerArmed,       \* fetchRawText: the 12 s abort timer is set and not cleared
    stalled,          \* the relay sent its headers and never sends the body
    bodyText,         \* the body the relay is sending
    lastError,        \* fetchRawText: local lastError
    rawText,          \* fetchFeed: local text (what fetchRawText returned)
    error,            \* fetchFeed: the error caught by the catch block
    discoveredUrl,    \* fetchFeed: local discoveredUrl
    discoveryInvoked, \* this frame called getFeedUrlFromHtml
    xmlAttempted,     \* this frame's parseXmlFeed handed the text to the XML parser
    fallbackUrl,      \* url given to fetchWithRss2Json
    fallbackCalls,    \* number of fetchWithRss2Json calls of the top-level call
    result,           \* value the top-level call resolved with
    resultFrom,       \* strategy that produced result
    failure,          \* error the top-level call rejected with
    served,           \* what the origin serves at each URL fetched so far
    uuid,             \* number of ids crypto.randomUUID has handed out
    response,         \* fetchWithRss2Json: what the conversion service answered
    pIn,              \* parse bench: the text given to parseXmlFeed
    pFeedId,          \* parse bench: feedId argument
    pUrl,             \* parse bench: originalUrl argument
    pOut,             \* parse bench: outcome of parseXmlFeed
    pDone,            \* parse bench: parseXmlFeed has run
    clock,            \* the time new Date() gives
    pOut2,            \* parse bench: outcome of a second parseXmlFeed call
    feeds,            \* App: state feeds
    articles,         \* App: state articles
    refreshing,       \* App: the refreshFeeds call waiting for its fetches
    adding,           \* App: the addFeed call waiting for its fetch
    merged,           \* App: number of articles the last merge was given
    sumText,          \* summarizeContent: parameter text
    sumPc,            \* summarizeContent: position of the call
    sumSent,          \* summarizeContent: the article text put in the request
    sumReply,         \* summarizeContent: what generateContent did
    sumOut,           \* summarizeContent: how the call settled
    issued,           \* the articles produced so far, with their ids
    batch,            \* refreshFeeds: its feeds, the results of its fetches
    removed,          \* removeFeed: the ids it was called with
    added,            \* addFeed: what its fetch settled with
    appError,         \* App: the error state
    calls,            \* concurrent fetchFeed calls: the locals of each
    net,              \* what the relays, the origins and the service answer
    running,          \* App: the refreshFeeds and addFeed calls in flight
    isLoading,        \* App: the loading flag
    isAdding,         \* Sidebar: the form has an addFeed call in flight
    notificationsEnabled, \* App: the notifications setting
    known,            \* App: knownArticleLinksRef.current
    isFirstLoad,      \* App: isFirstLoad.current
    notices           \* the notifications of new articles raised so far

vars == <<url, feedId, callUrl, callFeedId, pc, relayIdx, attempts, timerArmed,
          stalled, bodyText, lastError, rawText, error, discoveredUrl,
          discoveryInvoked, xmlAttempted, fallbackUrl, fallbackCalls, result,
          resultFrom, failure, served, uuid, response, pIn, pFeedId, pUrl,
          pOut, pDone, clock, pOut2, feeds, articles, refreshing, adding,
          merged, sumText, sumPc, sumSent, sumReply, sumOut, issued,
          batch, removed, added, appError, calls, net, running, isLoading,
          isAdding, notificationsEnabled, known, isFirstLoad, notices>>

fetchVars == <<url, feedId, callUrl, callFeedId, pc, relayIdx, attempts,
               timerArmed, stalled, bodyText, lastError, rawText, error,
               discoveredUrl, discoveryInvoked, xmlAttempted, fallbackUrl,
               fallbackCalls, result, resultFrom, failure, served, uuid,
               response>>

benchVars == <<pIn, pFeedId, pUrl, pOut, pDone, clock, pOut2>>

appVars == <<feeds, articles, refreshing, adding, merged>>

sumVars == <<sumText, sumPc, sumSent, sumReply, sumOut>>

\* the variables of the components other than the feed pipeline, the parse
\* benches and the App
batchVars == <<batch, removed, added, appError>>

pairVars == <<calls, net>>

uiVars == <<running, isLoading, isAdding, notificationsEnabled, known,
            isFirstLoad, notices>>

otherVars == <<sumVars, issued, batchVars, pairVars, uiVars>>

(***************************************************************************)
(* Bounds of the model.                                                    *)
(***************************************************************************)
\* longest text, in fragments, given to the parse bench
MaxToks == 3

(***************************************************************************)
(* URLs and references.                                                    *)
(***************************************************************************)
Hosts == {"a.example", "b.example"}

Paths == {"/", "/feed.xml"}

URLs == [host : Hosts, path : Paths]

\* JavaScript null, where a URL is expected
NullUrl == [host |-> "", path |-> ""]

FeedIds == {"f1", "f2"}

\* an href attribute: absent, empty, absolute, or a path relative to the base
NoHref == [kind |-> "none", host |-> "", path |-> ""]

EmptyHref == [kind |-> "empty", host |-> "", path |-> ""]

AbsHref(u) == [kind |-> "abs", host |-> u.host, path |-> u.path]

RelHref(p) == [kind |-> "rel", host |-> "", path |-> p]

\* an href that no base makes a URL of, such as "http://"
BadHref == [kind |-> "bad", host |-> "", path |-> "http://"]

\* a string that is not an absolute URL, such as "a.example/page": as a URL
\* value it has no host
NoScheme(str) == [host |-> "", path |-> str]

\* new URL(href, baseUrl) does not throw
CanResolve(href, baseUrl) ==
    \/ href.kind = "abs"
    \/ href.kind = "rel" /\ baseUrl.host # ""

\* the href attribute as it is written
RawHref(href) == [host |-> href.host, path |-> href.path]

\* new URL(href, baseUrl).href
ResolveUrl(href, baseUrl) ==
    IF href.kind = "abs"
    THEN [host |-> href.host, path |-> href.path]
    ELSE [host |-> baseUrl.host, path |-> href.path]

(***************************************************************************)
(* Texts.                                                                  *)
(***************************************************************************)
Spaces == {"WS", "BOM"}

Toks == {"BOM", "WS", "<!DOCTYPE html", "<HTML", "<html", "<body", "<rss",
         "<feed", "<rdf:RDF", "txt"}

\* String.prototype.toLowerCase on one fragment
LowerTok(t) ==
    CASE t = "<!DOCTYPE html" -> "<!doctype html"
      [] t = "<HTML" -> "<html"
      [] t = "<rdf:RDF" -> "<rdf:rdf"
      [] OTHER -> t

toLowerCase(s) == [i \in 1..Len(s) |-> LowerTok(s[i])]

\* text.replace(/^\uFEFF/, '')
StripBom(s) == IF Len(s) > 0 /\ s[1] = "BOM" THEN Tail(s) ELSE s

RECURSIVE TrimStart(_)
TrimStart(s) ==
    IF Len(s) > 0 /\ s[1] \in Spaces THEN TrimStart(Tail(s)) ELSE s

RECURSIVE TrimEnd(_)
TrimEnd(s) ==
    IF Len(s) > 0 /\ s[Len(s)] \in Spaces
    THEN TrimEnd(SubSeq(s, 1, Len(s) - 1))
    ELSE s

\* String.prototype.trim: white space includes U+FEFF
trim(s) == TrimEnd(TrimStart(s))

startsWith(s, prefix) == Len(s) > 0 /\ s[1] = prefix

includes(s, part) == \E i \in 1..Len(s) : s[i] = part

(***************************************************************************)
(* Strings whose length matters.  A string is pre white-space characters,  *)
(* txt other characters and post white-space characters, followed by dots  *)
(* full stops; tags tells that it holds HTML elements and img what its     *)
(* first img element is ("none", "nosrc" for one without src, or the src). *)
(* For an HTML string pre, txt and post are those of its text content; the *)
(* HTML parser drops white space that comes before the first tag or text,  *)
(* so the text content of a string without tags has no leading white space.*)
(***************************************************************************)
Str(pre, txt, post, tags, img) ==
    [pre |-> pre, txt |-> txt, post |-> post, dots |-> 0, tags |-> tags,
     img |-> img]

EmptyStr == Str(0, 0, 0, FALSE, "none")

\* s.length of a string without elements
Length(s) == s.pre + s.txt + s.post + s.dots

Min(a, b) == IF a < b THEN a ELSE b

\* s.slice(0, n) of a string without elements and full stops
Slice(s, n) ==
    LET pre == Min(s.pre, n)
        txt == Min(s.txt, n - pre)
        post == Min(s.post, n - pre - txt)
    IN  [s EXCEPT !.pre = pre, !.txt = txt, !.post = post]

\* s.trim() of a string without elements
TrimStr(s) == [s EXCEPT !.pre = 0, !.post = 0]

\* s + '...'
WithEllipsis(s) == [s EXCEPT !.dots = 3]

\* doc.body.textContent of the string parsed as text/html
TextContent(html) == [html EXCEPT !.tags = FALSE, !.img = "none"]

\* a string is falsy when it is empty
IsEmptyStr(s) == Length(s) = 0 /\ ~s.tags /\ s.img = "none"

(***************************************************************************)
(* Feed documents.                                                         *)
(***************************************************************************)
\* the text of a date element; <<>> is the empty text
DateText(k) == <<"date", k>>

\* new Date().toISOString() at time t
ToISOString(t) == <<"now", t>>

\* a date element of an item: its name and its text
DateEl(name, text) == [name |-> name, text |-> text]

\* an element of an item whose local name is content: its namespace and url
ContentEl(ns, u) == [ns |-> ns, url |-> u]

\* the first enclosure element of an item: type and url ("null" when absent)
Enclosure(type, u) == [present |-> TRUE, type |-> type, url |-> u]

NoEnclosure == [present |-> FALSE, type |-> "", url |-> "null"]

\* one element of a feed document, with what the selectors of parseXmlFeed
\* find in it, in document order
FullItem(tag, t, l, href, dates, encoded, description, contents, enclosure, author) ==
    [tag |-> tag, title |-> t, link |-> l, href |-> href, dates |-> dates,
     encoded |-> encoded, description |-> description, contents |-> contents,
     enclosure |-> enclosure, author |-> author]

\* one item element with a title, a link and a pubDate
Item(t, l) ==
    FullItem("item", t, l, "", <<DateEl("pubDate", DateText(1))>>, EmptyStr,
             EmptyStr, <<>>, NoEnclosure, "")

\* the document the XML parser builds, or its parsererror
\* an Atom entry: its link is the href attribute of an empty link element
Entry(t, href) ==
    FullItem("entry", t, "", href, <<DateEl("updated", DateText(2))>>,
             EmptyStr, EmptyStr, <<>>, NoEnclosure, "")

\* an element of the document that is neither item nor entry
OtherEl(tag, t) ==
    FullItem(tag, t, "", "", <<>>, EmptyStr, EmptyStr, <<>>, NoEnclosure, "")

XmlError == [err |-> TRUE, title |-> "", items |-> <<>>, diag |-> "parsererror"]

\* a parsererror with another diagnostic
XmlErrorAt(d) == [err |-> TRUE, title |-> "", items |-> <<>>, diag |-> d]

XmlDoc(t, its) == [err |-> FALSE, title |-> t, items |-> its, diag |-> ""]

\* a link element of the HTML document
LinkEl(t, h) == [type |-> t, href |-> h]

Text(toks, xml, links) == [toks |-> toks, xml |-> xml, links |-> links]

EmptyText == Text(<<>>, XmlError, <<>>)

(***************************************************************************)
(* Errors.  src and relay tell which throw statement made the error.       *)
(***************************************************************************)
Err(name, message, src, relay, html, orig) ==
    [name |-> name, message |-> message, src |-> src, relay |-> relay,
     htmlContent |-> html, originalUrl |-> orig]

NoError == Err("none", <<>>, "none", 0, EmptyText, NullUrl)

\* new Error(message)
PlainError(message, src, relay) ==
    Err("Error", message, src, relay, EmptyText, NullUrl)

\* class FeedDiscoveryError
FeedDiscoveryError(message, htmlContent, originalUrl) ==
    Err("FeedDiscoveryError", message, "parse", 0, htmlContent, originalUrl)

(***************************************************************************)
(* parseXmlFeed.                                                           *)
(***************************************************************************)
NoResult == [title |-> "", articles |-> <<>>]

Threw(e, parsed) ==
    [kind |-> "throw", value |-> NoResult, error |-> e, xmlParsed |-> parsed]

Returned(v, parsed) ==
    [kind |-> "return", value |-> v, error |-> NoError, xmlParsed |-> parsed]

NoOutcome == [kind |-> "none", value |-> NoResult, error |-> NoError,
              xmlParsed |-> FALSE]

\* isHtml computed on trimmed instead of lowerText
IsHtmlCaseSensitive(trimmed) ==
    startsWith(trimmed, "<!doctype html") \/ startsWith(trimmed, "<html")

\* const isHtml: lowerText is trimmed.toLowerCase()
IsHtml(trimmed) ==
    LET lowerText == toLowerCase(trimmed)
    IN  startsWith(lowerText, "<!doctype html") \/ startsWith(lowerText, "<html")

\* const isRss
IsRss(trimmed) ==
    LET lowerText == toLowerCase(trimmed)
    IN  \/ includes(lowerText, "<rss")
        \/ includes(lowerText, "<feed")
        \/ includes(lowerText, "<rdf:rdf")

\* the second HTML check, made on the parser's error
LooksLikeHtml(trimmed) ==
    includes(trimmed, "<html") \/ includes(trimmed, "<body")

\* slice(0, 300)
SnippetMax == 300

\* let link: the text of the link element, else its href attribute
ItemLink(item) == IF item.link # "" THEN item.link ELSE item.href

\* a pubDate that is the time of the call for every item
ItemPubDateAlwaysNow(item, now) == ToISOString(now)

\* const pubDate: the text of the first date element in document order, else
\* the time of the call
ItemPubDate(item, now) ==
    IF Len(item.dates) > 0 /\ item.dates[1].text # <<>>
    THEN item.dates[1].text
    ELSE ToISOString(now)

\* const content = contentEncoded || description || ''
ItemContent(item) ==
    IF ~IsEmptyStr(item.encoded) THEN item.encoded ELSE item.description

\* a snippet that is cut and trimmed and never gets the ellipsis
ContentSnippetNeverEllipsis(content) ==
    TrimStr(Slice(TextContent(content), SnippetMax))

\* const contentSnippet
ContentSnippet(content) ==
    LET textContent == TextContent(content)
        cut == TrimStr(Slice(textContent, SnippetMax))
    IN  IF Length(textContent) > SnippetMax THEN WithEllipsis(cut) ELSE cut

\* getAttribute('type')?.startsWith('image')
IsImageType(type) == type \in {"image/jpeg", "image/png"}

\* a url attribute that is present and not empty
HasUrl(u) == u \notin {"null", ""}

\* let thumbnail
ItemThumbnail(item, content) ==
    IF Len(item.contents) > 0 /\ HasUrl(item.contents[1].url)
    THEN item.contents[1].url
    ELSE IF item.enclosure.present /\ IsImageType(item.enclosure.type)
    THEN item.enclosure.url
    ELSE IF content.img # "none"
    THEN IF content.img = "nosrc" THEN "null" ELSE content.img
    ELSE ""

\* a generator that gives the same value again
randomUUIDRepeating(n) == 1

\* crypto.randomUUID(), called after n earlier calls: a value not given
\* before
randomUUID(n) == n + 1

\* the article of one item; n is the number of ids handed out before it
Article(item, fid, n, now) ==
    [id |-> randomUUID(n),
     feedId |-> fid,
     title |-> IF item.title # "" THEN item.title ELSE "Bez nazvu",
     link |-> ItemLink(item),
     pubDate |-> ItemPubDate(item, now),
     content |-> ItemContent(item),
     contentSnippet |-> ContentSnippet(ItemContent(item)),
     thumbnail |-> ItemThumbnail(item, ItemContent(item)),
     author |-> item.author]

\* xml.querySelectorAll('item, entry')
IsItemOrEntry(el) == el.tag \in {"item", "entry"}

\* a catch clause that wraps whatever it caught
ParseRethrowWrapsAll(e) ==
    PlainError(<<"Chyba pri parsovani XML: ">> \o e.message, "parse", 0)

\* the catch clause of parseXmlFeed
ParseRethrow(e) ==
    IF e.name = "FeedDiscoveryError"
    THEN e
    ELSE PlainError(<<"Chyba pri parsovani XML: ">> \o e.message, "parse", 0)

\* a map that walks the items from the last to the first
MapItemsReversed(items, fid, n, now) ==
    [i \in 1..Len(items) |->
        Article(items[Len(items) + 1 - i], fid, n + i - 1, now)]

\* items.map(item => ...)
MapItems(items, fid, n, now) ==
    [i \in 1..Len(items) |-> Article(items[i], fid, n + i - 1, now)]

\* the try block of parseXmlFeed, from the XML parse on
ParseDocument(text, trimmed, fid, originalUrl, n, now) ==
    IF text.xml.err
    THEN IF LooksLikeHtml(trimmed)
         THEN Threw(ParseRethrow(FeedDiscoveryError(
                  <<"XML Parsing failed, content looks like HTML">>,
                  text, originalUrl)), TRUE)
         ELSE Threw(ParseRethrow(PlainError(
                  <<"XML Parser Error: ", text.xml.diag>>, "parse", 0)), TRUE)
    ELSE LET items == SelectSeq(text.xml.items, IsItemOrEntry)
         IN  Returned(
                 [title |-> IF text.xml.title # "" THEN text.xml.title
                            ELSE "Neznamy zdroj",
                  articles |-> MapItems(items, fid, n, now)],
                 TRUE)

parseXmlFeed(rawInput, fid, originalUrl, n, now) ==
    LET text == [rawInput EXCEPT !.toks = StripBom(rawInput.toks)]
        trimmed == trim(text.toks)
    IN  IF IsHtml(trimmed) /\ ~IsRss(trimmed)
        THEN Threw(FeedDiscoveryError(<<"Received HTML page instead of XML">>,
                                      text, originalUrl), FALSE)
        ELSE ParseDocument(text, trimmed, fid, originalUrl, n, now)

(***************************************************************************)
(* getFeedUrlFromHtml.                                                     *)
(***************************************************************************)
FeedTypes == {"application/rss+xml", "application/atom+xml"}

\* a selector that takes every link element
IsAnyLink(l) == TRUE

IsFeedLink(l) == l.type \in FeedTypes

getFeedUrlFromHtml(html, baseUrl) ==
    LET links == SelectSeq(html.links, IsFeedLink)
    IN  IF Len(links) > 0 /\ links[1].href.kind \notin {"none", "empty"}
        THEN IF CanResolve(links[1].href, baseUrl)
             THEN ResolveUrl(links[1].href, baseUrl)
             ELSE RawHref(links[1].href)
        ELSE NullUrl

(***************************************************************************)
(* fetchWithRss2Json, from the response of the conversion service on.      *)
(***************************************************************************)
\* a response of api.rss2json.com: HTTP success, the status field, the feed
\* a response of the conversion service: res.ok, and of the body either
\* json = FALSE (not JSON) or data.status, data.feed.title and data.items
Rss2JsonResponse(ok, status, title, items) ==
    [ok |-> ok, json |-> TRUE, status |-> status, title |-> title,
     items |-> items]

\* a success status with a body that is not JSON
NotJson ==
    [ok |-> TRUE, json |-> FALSE, status |-> "", title |-> "", items |-> <<>>]

\* no response yet
NoResponse ==
    [ok |-> FALSE, json |-> FALSE, status |-> "none", title |-> "",
     items |-> <<>>]

\* a string field the item does not have
UndefinedStr == Str(0, 0, 0, FALSE, "undefined")

\* an item of data.items; a missing text field is "undefined"
JsonItem(title, link, pubDate, content, description, thumbnail, enclosureLink, author) ==
    [title |-> title, link |-> link, pubDate |-> pubDate, content |-> content,
     description |-> description, thumbnail |-> thumbnail,
     enclosureLink |-> enclosureLink, author |-> author]

PlainJsonItem(t, l) ==
    JsonItem(t, l, DateText(1), UndefinedStr, UndefinedStr, "undefined",
             "undefined", "undefined")

Rss2JsonResponses ==
    {Rss2JsonResponse(FALSE, "error", "", <<>>),
     Rss2JsonResponse(TRUE, "error", "", <<>>),
     NotJson,
     Rss2JsonResponse(TRUE, "ok", "T2", <<>>),
     Rss2JsonResponse(TRUE, "ok", "T2",
                      <<PlainJsonItem("t1", "l1"), PlainJsonItem("t2", "l2")>>)}

\* a || b for strings
OrElse(a, b) == IF IsEmptyStr(a) \/ a = UndefinedStr THEN b ELSE a

\* replace(/<[^>]*>/g, '')
ReplaceTags(s) == [s EXCEPT !.tags = FALSE, !.img = "none"]

\* contentSnippet of the fallback
Rss2JsonSnippet(item) ==
    Slice(ReplaceTags(OrElse(item.description, OrElse(item.content, EmptyStr))),
          SnippetMax)

Rss2JsonArticle(item, fid, n) ==
    [id |-> randomUUID(n),
     feedId |-> fid,
     title |-> item.title,
     link |-> item.link,
     pubDate |-> item.pubDate,
     content |-> OrElse(item.content, OrElse(item.description, EmptyStr)),
     contentSnippet |-> Rss2JsonSnippet(item),
     thumbnail |-> IF item.thumbnail \notin {"undefined", ""}
                   THEN item.thumbnail
                   ELSE item.enclosureLink,
     author |-> item.author]

\* a check of data.status that lets every status pass
StatusIgnored(res) == TRUE

\* data.status !== 'ok' is false
StatusIsOk(res) == res.status = "ok"

fetchWithRss2Json(res, fid, n) ==
    IF ~res.ok
    THEN Threw(PlainError(<<"RSS2JSON failed with status ", "500">>,
                          "fallback", 0), FALSE)
    ELSE IF ~res.json
    THEN Threw(Err("SyntaxError", <<"Unexpected token">>, "fallback", 0,
                   EmptyText, NullUrl), FALSE)
    ELSE IF ~StatusIsOk(res)
    THEN Threw(PlainError(<<"RSS2JSON failed: ", "message">>, "fallback", 0),
               FALSE)
    ELSE Returned([title |-> res.title,
                   articles |-> [i \in 1..Len(res.items) |->
                                    Rss2JsonArticle(res.items[i], fid, n + i - 1)]],
                  FALSE)

(***************************************************************************)
(* What the origins serve.                                                 *)
(***************************************************************************)
FeedPage ==
    Text(<<"<rss">>, XmlDoc("T", <<Item("t1", "l1"), Item("", "l2")>>), <<>>)

HtmlPage(links) == Text(<<"<!DOCTYPE html", "<HTML", "<body">>, XmlError, links)

\* a page the first HTML check misses and the XML parser rejects
DisguisedPage(links) == Text(<<"txt", "<html", "<body">>, XmlError, links)

GarbagePage == Text(<<"txt">>, XmlError, <<>>)

BlankPage == Text(<<"WS">>, XmlError, <<>>)

PageLinks ==
    {<<>>, <<LinkEl("application/atom+xml", RelHref("/feed.xml"))>>}
    \cup {<<LinkEl("application/rss+xml", AbsHref(u))>> : u \in URLs}

Pages ==
    {FeedPage, GarbagePage, BlankPage, DisguisedPage(<<>>)}
    \cup {HtmlPage(l) : l \in PageLinks}

\* the origin at this URL has not been asked yet
Unset == Text(<<"?">>, XmlError, <<>>)

(***************************************************************************)
(* fetchRawText.                                                           *)
(***************************************************************************)
\* PROXIES.length
NumRelays == 4

\* a loop that steps over a relay
NextRelaySkipping(k) == k + 2

\* for (const createProxyUrl of PROXIES): the relay after relay k
NextRelay(k) == k + 1

\* lastError = lastError || err: the first error is kept
RecordFirstError(prev, err) == IF prev.name # "none" THEN prev ELSE err

\* catch (err) { lastError = err; }
RecordError(prev, err) == err

\* throw lastError || new Error('Failed to fetch feed from all proxies')
ThrownOnExhaustion(last) ==
    IF last.name # "none"
    THEN last
    ELSE PlainError(<<"Failed to fetch feed from all proxies">>, "relay", 0)

\* !text || text.trim().length === 0
IsEmptyBody(text) == Len(text.toks) = 0 \/ Len(trim(text.toks)) = 0

\* the attempt on relay relayIdx threw err: the catch clause and the next turn
\* of the loop, or the throw after the loop
RelayFailed(err) ==
    LET recorded == RecordError(lastError, err)
        k == NextRelay(relayIdx)
    IN  /\ lastError' = recorded
        /\ stalled' = FALSE
        /\ bodyText' = EmptyText
        /\ IF k \in 1..NumRelays
           THEN /\ relayIdx' = k
                /\ attempts' = Append(attempts, k)
                /\ timerArmed' = TRUE
                /\ pc' = "awaitResponse"
                /\ error' = error
           ELSE /\ relayIdx' = relayIdx
                /\ attempts' = attempts
                /\ timerArmed' = FALSE
                /\ pc' = "catch"
                /\ error' = ThrownOnExhaustion(recorded)

\* fetchFeed is entered: fetchRawText starts its first attempt
FetchFeedEnter ==
    /\ pc = "start"
    /\ relayIdx' = 1
    /\ attempts' = <<1>>
    /\ timerArmed' = TRUE
    /\ pc' = "awaitResponse"
    /\ UNCHANGED <<url, feedId, callUrl, callFeedId, stalled, bodyText,
                   lastError, rawText, error, discoveredUrl, discoveryInvoked,
                   xmlAttempted, fallbackUrl, fallbackCalls, result,
                   resultFrom, failure, served, uuid>>
    /\ UNCHANGED response
    /\ UNCHANGED benchVars
    /\ UNCHANGED appVars
    /\ UNCHANGED otherVars

\* fetch() rejects: the relay cannot be reached
RelayUnreachable ==
    /\ pc = "awaitResponse"
    /\ RelayFailed(Err("TypeError", <<"Failed to fetch">>, "relay", relayIdx,
                       EmptyText, NullUrl))
    /\ UNCHANGED <<url, feedId, callUrl, callFeedId, rawText, discoveredUrl,
                   discoveryInvoked, xmlAttempted, fallbackUrl, fallbackCalls,
                   result, resultFrom, failure, served, uuid>>
    /\ UNCHANGED response
    /\ UNCHANGED benchVars
    /\ UNCHANGED appVars
    /\ UNCHANGED otherVars

\* the 12 s timer fires: controller.abort() rejects the pending operation
TimerFires ==
    /\ pc \in {"awaitResponse", "readBody"}
    /\ timerArmed
    /\ RelayFailed(Err("AbortError", <<"The operation was aborted">>, "relay",
                       relayIdx, EmptyText, NullUrl))
    /\ UNCHANGED <<url, feedId, callUrl, callFeedId, rawText, discoveredUrl,
                   discoveryInvoked, xmlAttempted, fallbackUrl, fallbackCalls,
                   result, resultFrom, failure, served, uuid>>
    /\ UNCHANGED response
    /\ UNCHANGED benchVars
    /\ UNCHANGED appVars
    /\ UNCHANGED otherVars

\* the relay answers with a status that is not a success
RelayBadStatus ==
    /\ pc = "awaitResponse"
    /\ RelayFailed(PlainError(<<"HTTP error! status: ", "500">>, "relay",
                              relayIdx))
    /\ UNCHANGED <<url, feedId, callUrl, callFeedId, rawText, discoveredUrl,
                   discoveryInvoked, xmlAttempted, fallbackUrl, fallbackCalls,
                   result, resultFrom, failure, served, uuid>>
    /\ UNCHANGED response
    /\ UNCHANGED benchVars
    /\ UNCHANGED appVars
    /\ UNCHANGED otherVars

\* the relay answers with a success status: clearTimeout, then response.text()
\* is awaited.  The body is what the origin serves, or nothing, and may never
\* arrive.
RelayResponds ==
    /\ pc = "awaitResponse"
    /\ \/ /\ stalled' = TRUE
          /\ bodyText' = EmptyText
          /\ served' = served
       \/ /\ stalled' = FALSE
          /\ bodyText' = EmptyText
          /\ served' = served
       \/ \E page \in Pages :
             /\ served[url] # Unset => page = served[url]
             /\ served' = [served EXCEPT ![url] = page]
             /\ bodyText' = page
             /\ stalled' = FALSE
    /\ timerArmed' = FALSE
    /\ pc' = "readBody"
    /\ UNCHANGED <<url, feedId, callUrl, callFeedId, relayIdx, attempts,
                   lastError, rawText, error, discoveredUrl, discoveryInvoked,
                   xmlAttempted, fallbackUrl, fallbackCalls, result,
                   resultFrom, failure, uuid>>
    /\ UNCHANGED response
    /\ UNCHANGED benchVars
    /\ UNCHANGED appVars
    /\ UNCHANGED otherVars

\* response.text() resolves
BodyArrives ==
    /\ pc = "readBody"
    /\ ~stalled
    /\ IF IsEmptyBody(bodyText)
       THEN /\ RelayFailed(PlainError(<<"Empty response">>, "relay", relayIdx))
            /\ UNCHANGED rawText
       ELSE /\ rawText' = bodyText
            /\ pc' = "parse"
            /\ UNCHANGED <<relayIdx, attempts, timerArmed, stalled, bodyText,
                           lastError, error>>
    /\ UNCHANGED <<url, feedId, callUrl, callFeedId, discoveredUrl,
                   discoveryInvoked, xmlAttempted, fallbackUrl, fallbackCalls,
                   result, resultFrom, failure, served, uuid>>
    /\ UNCHANGED response
    /\ UNCHANGED benchVars
    /\ UNCHANGED appVars
    /\ UNCHANGED otherVars

(***************************************************************************)
(* fetchFeed.                                                              *)
(***************************************************************************)
\* discovery tried on every error
IsAnyError(e) == TRUE

\* error.name === "FeedDiscoveryError"
IsDiscoveryError(e) == e.name = "FeedDiscoveryError"

\* the comparison with url left out
ShouldRecurseOnAny(discovered, u) == discovered # NullUrl

\* discoveredUrl && discoveredUrl !== url
ShouldRecurse(discovered, u) == discovered # NullUrl /\ discovered # u

\* the host of the discovered URL passed in the place of feedId
PassedHostAsFeedId(fid, discovered) == discovered.host

\* the feedId given to the recursive call and to the fallback
PassedFeedId(fid, discovered) == fid

\* the result of parseXmlFeed is not returned
ParseNeverReturns(out) == FALSE

\* parseXmlFeed returned: fetchFeed returns its value
ParseReturned(out) == out.kind = "return"

\* return parseXmlFeed(text, feedId, url)
ParseStep ==
    /\ pc = "parse"
    /\ LET out == parseXmlFeed(rawText, feedId, url, uuid, clock)
       IN  /\ xmlAttempted' = out.xmlParsed
           /\ IF ParseReturned(out)
              THEN /\ result' = out.value
                   /\ resultFrom' = "direct"
                   /\ uuid' = uuid + Len(out.value.articles)
                   /\ pc' = "done"
                   /\ error' = error
              ELSE /\ error' = out.error
                   /\ pc' = "catch"
                   /\ UNCHANGED <<result, resultFrom, uuid>>
    /\ UNCHANGED <<url, feedId, callUrl, callFeedId, relayIdx, attempts,
                   timerArmed, stalled, bodyText, lastError, rawText,
                   discoveredUrl, discoveryInvoked, fallbackUrl, fallbackCalls,
                   failure, served>>
    /\ UNCHANGED response
    /\ UNCHANGED benchVars
    /\ UNCHANGED appVars
    /\ UNCHANGED otherVars

\* a fallback for the URL the caller gave
FallbackForCallUrl(u, top) == top

\* fetchWithRss2Json(url, feedId): url is the parameter of the running
\* fetchFeed call, top the URL the caller gave
FallbackTarget(u, top) == u

\* the catch block of fetchFeed: discovery and the recursive call, or the
\* request to the conversion service
CatchBlock ==
    /\ pc = "catch"
    /\ LET discovers == IsDiscoveryError(error)
           found == IF discovers
                    THEN getFeedUrlFromHtml(error.htmlContent, url)
                    ELSE NullUrl
       IN  IF discovers /\ ShouldRecurse(found, url)
           THEN /\ url' = found
                /\ feedId' = PassedFeedId(feedId, found)
                /\ pc' = "start"
                /\ relayIdx' = 0
                /\ attempts' = <<>>
                /\ lastError' = NoError
                /\ rawText' = EmptyText
                /\ error' = NoError
                /\ discoveredUrl' = NullUrl
                /\ discoveryInvoked' = FALSE
                /\ xmlAttempted' = FALSE
                /\ UNCHANGED <<fallbackUrl, fallbackCalls>>
           ELSE /\ discoveredUrl' = found
                /\ discoveryInvoked' = discovers
                /\ fallbackUrl' = FallbackTarget(url, callUrl)
                /\ fallbackCalls' = fallbackCalls + 1
                /\ feedId' = PassedFeedId(feedId, found)
                /\ pc' = "fallbackWait"
                /\ UNCHANGED <<url, relayIdx, attempts, lastError, rawText,
                               error, xmlAttempted>>
    /\ UNCHANGED <<callUrl, callFeedId, timerArmed, stalled, bodyText, result,
                   resultFrom, failure, served, uuid>>
    /\ UNCHANGED response
    /\ UNCHANGED benchVars
    /\ UNCHANGED appVars
    /\ UNCHANGED otherVars

\* the error of the direct chain is thrown again
SurfacedCaught(e, caught) == caught

\* the error fetchFeed rejects with when the fallback threw e
Surfaced(e, caught) == e

\* fetch(apiUrl) rejects: the conversion service cannot be reached
FallbackUnreachable ==
    /\ pc = "fallbackWait"
    /\ failure' = Surfaced(Err("TypeError", <<"Failed to fetch">>, "fallback", 0,
                               EmptyText, NullUrl), error)
    /\ pc' = "failed"
    /\ UNCHANGED <<url, feedId, callUrl, callFeedId, relayIdx, attempts,
                   timerArmed, stalled, bodyText, lastError, rawText, error,
                   discoveredUrl, discoveryInvoked, xmlAttempted, fallbackUrl,
                   fallbackCalls, result, resultFrom, served, uuid>>
    /\ UNCHANGED response
    /\ UNCHANGED benchVars
    /\ UNCHANGED appVars
    /\ UNCHANGED otherVars

\* the conversion service answers with one of responses
FallbackRespondsWith(responses) ==
    /\ pc = "fallbackWait"
    /\ \E res \in responses :
          LET out == fetchWithRss2Json(res, feedId, uuid)
          IN  /\ response' = res
              /\ IF out.kind = "return"
                 THEN /\ result' = out.value
                      /\ resultFrom' = "fallback"
                      /\ uuid' = uuid + Len(out.value.articles)
                      /\ pc' = "done"
                      /\ failure' = failure
                 ELSE /\ failure' = Surfaced(out.error, error)
                      /\ pc' = "failed"
                      /\ UNCHANGED <<result, resultFrom, uuid>>
    /\ UNCHANGED <<url, feedId, callUrl, callFeedId, relayIdx, attempts,
                   timerArmed, stalled, bodyText, lastError, rawText, error,
                   discoveredUrl, discoveryInvoked, xmlAttempted, fallbackUrl,
                   fallbackCalls, served>>
    /\ UNCHANGED benchVars
    /\ UNCHANGED appVars
    /\ UNCHANGED otherVars

FallbackResponds == FallbackRespondsWith(Rss2JsonResponses)

(***************************************************************************)
(* App: the feed list and the article list.                                *)
(***************************************************************************)
\* the address of a feed as the user typed it: with or without a slash at
\* its end
AppUrl(base, slash) == [base |-> base, slash |-> slash]

AppUrls == {AppUrl(b, sl) : b \in {"u1", "u2"}, sl \in BOOLEAN}

\* url.replace(/\/$/, '')
StripSlash(u) == [u EXCEPT !.slash = FALSE]

\* a feed of the list; its title is left out
Feed(id, u) == [id |-> id, url |-> u]

\* an article of the list: its de-duplication key and its feed
AppArticle(link, fid) == [link |-> link, feedId |-> fid]

NoRefresh == [active |-> FALSE, feeds |-> <<>>]

NoAdd == [active |-> FALSE, url |-> AppUrl("", FALSE), id |-> 0]

AppIdle ==
    /\ feeds = <<>>
    /\ articles = <<>>
    /\ refreshing = NoRefresh
    /\ adding = NoAdd
    /\ merged = 0

(***************************************************************************)
(* refreshFeeds and addFeed calls in flight together, with the loading     *)
(* flag, the notifications and the controls of the page that start them.   *)
(***************************************************************************)
\* a refreshFeeds call at its await: the feeds and the notifications
\* setting of its closure
RefreshCall(fs, enabled) ==
    [kind |-> "refresh", feeds |-> fs, enabled |-> enabled,
     url |-> AppUrl("", FALSE), id |-> 0, form |-> FALSE]

\* an addFeed(u) call at its await, with the id it drew; form tells
\* whether the form made the call
AddCall(u, id, form) ==
    [kind |-> "add", feeds |-> <<>>, enabled |-> FALSE, url |-> u, id |-> id,
     form |-> form]

\* the sequence s without its element at i
RemoveAt(s, i) == SubSeq(s, 1, i - 1) \o SubSeq(s, i + 1, Len(s))

LinksOf(arts) == {arts[i].link : i \in 1..Len(arts)}

\* feeds.some(f => f.url.replace(/\/$/, '') === normalizedUrl)
IsListed(fs, u) ==
    \E i \in 1..Len(fs) : StripSlash(fs[i].url) = StripSlash(u)

\* the known links left as they are
KnownLeft(links, arts) == links

\* forEach(a => knownArticleLinksRef.current.add(a.link))
KnownWith(links, arts) == links \cup LinksOf(arts)

\* uniqueArticles.filter(a => !knownArticleLinksRef.current.has(a.link))
NewItems(arts, links) == LinksOf(arts) \ links

\* !isFirstLoad.current && notificationsEnabled, and newItems.length > 0
Notifies(first, enabled, newItems) == ~first /\ enabled /\ newItems # {}

UiIdle ==
    /\ running = <<>>
    /\ isLoading = FALSE
    /\ isAdding = FALSE
    /\ notificationsEnabled = FALSE
    /\ known = {}
    /\ isFirstLoad = TRUE
    /\ notices = <<>>

(***************************************************************************)
(* fetchFeed as a function of the locals of one call: what the call does   *)
(* from one await to the next, given what the network answers.             *)
(***************************************************************************)
\* the locals of a fetchFeed(u, fid) call that awaits its first relay
NewCall(u, fid) ==
    [pc |-> "relay", callUrl |-> u, callFeedId |-> fid, url |-> u,
     feedId |-> fid, relayIdx |-> 1, lastError |-> NoError, error |-> NoError,
     outcome |-> NoOutcome, steps |-> 0]

\* what relay k answers for the address u: the fetch rejects, is aborted, has
\* a bad status, an empty body, or the body the origin serves
RelayAnswer(nw, u, k) ==
    LET kind == nw.relay[u][k]
    IN  [kind |-> kind,
         body |-> IF kind = "body" THEN nw.page[u]
                  ELSE IF kind = "empty" THEN BlankPage ELSE EmptyText]

\* the error the attempt on relay k ends with
AttemptError(answer, k) ==
    IF answer.kind = "reject"
    THEN Err("TypeError", <<"Failed to fetch">>, "relay", k, EmptyText, NullUrl)
    ELSE IF answer.kind = "abort"
    THEN Err("AbortError", <<"The operation was aborted">>, "relay", k,
             EmptyText, NullUrl)
    ELSE IF answer.kind = "status"
    THEN PlainError(<<"HTTP error! status: ", "500">>, "relay", k)
    ELSE PlainError(<<"Empty response">>, "relay", k)

\* the catch block of fetchFeed for the error e: the call goes on with the
\* discovered address or awaits the conversion service
Caught(st, e) ==
    LET found == IF IsDiscoveryError(e)
                 THEN getFeedUrlFromHtml(e.htmlContent, st.url)
                 ELSE NullUrl
    IN  IF IsDiscoveryError(e) /\ ShouldRecurse(found, st.url)
        THEN [st EXCEPT !.url = found,
                        !.feedId = PassedFeedId(st.feedId, found),
                        !.relayIdx = 1,
                        !.lastError = NoError,
                        !.error = NoError,
                        !.pc = "relay"]
        ELSE [st EXCEPT !.error = e, !.pc = "fallback"]

\* the call resumes with the answer of its relay
ResumeRelay(st, nw, n, now) ==
    LET answer == RelayAnswer(nw, st.url, st.relayIdx)
    IN  IF answer.kind = "body" /\ ~IsEmptyBody(answer.body)
        THEN LET out == parseXmlFeed(answer.body, st.feedId, st.url, n, now)
             IN  IF ParseReturned(out)
                 THEN [st EXCEPT !.pc = "done", !.outcome = out]
                 ELSE Caught(st, out.error)
        ELSE LET recorded == RecordError(st.lastError,
                                         AttemptError(answer, st.relayIdx))
                 k == NextRelay(st.relayIdx)
             IN  IF k \in 1..NumRelays
                 THEN [st EXCEPT !.relayIdx = k, !.lastError = recorded]
                 ELSE Caught([st EXCEPT !.lastError = recorded],
                             ThrownOnExhaustion(recorded))

\* the call resumes with the answer of the conversion service
ResumeFallback(st, nw, n) ==
    LET out == fetchWithRss2Json(nw.fallback[FallbackTarget(st.url,
                                                            st.callUrl)],
                                 st.feedId, n)
    IN  IF out.kind = "return"
        THEN [st EXCEPT !.pc = "done", !.outcome = out]
        ELSE [st EXCEPT !.pc = "failed",
                        !.outcome = Threw(Surfaced(out.error, st.error),
                                          FALSE)]

\* one resumption of a call that is in flight
Resume(st, nw, n, now) ==
    LET next == IF st.pc = "relay"
                THEN ResumeRelay(st, nw, n, now)
                ELSE ResumeFallback(st, nw, n)
    IN  [next EXCEPT !.steps = st.steps + 1]

InFlight(st) == st.pc \in {"relay", "fallback"}

\* calls working on one set of locals, those of the first call
LocalsOfFirst(all, c) == all[1]

\* the locals of call c: the parameters and the variables declared inside
\* fetchFeed and fetchRawText
Locals(all, c) == all[c]

NoNet == [page |-> <<>>, relay |-> <<>>, fallback |-> <<>>]

PairIdle ==
    /\ calls = <<>>
    /\ net = NoNet

\* a feed of the list with its title
TitledFeed(id, u, title) == [id |-> id, url |-> u, title |-> title]

\* an element of results: the value or the reason are left out for a
\* promise that has not settled
NotFetched == [status |-> "pending", title |-> "", articles |-> <<>>]

RejectedResult == [status |-> "rejected", title |-> "", articles |-> <<>>]

FulfilledResult(title, arts) ==
    [status |-> "fulfilled", title |-> title, articles |-> arts]

NoBatch == [pc |-> "idle", feeds |-> <<>>, results |-> <<>>, order |-> <<>>]

\* useState<string | null>(null)
NoAppError == "null"

\* 'Chyba při načítání článků. Zkontrolujte své připojení.'
LoadError == "Chyba pri nacitani clanku. Zkontrolujte sve pripojeni."

BatchIdle ==
    /\ batch = NoBatch
    /\ removed = {}
    /\ added = NotFetched
    /\ appError = NoAppError

\* await Promise.all(promises): rejects when one of the promises does
PromiseAll(results) ==
    IF \E i \in 1..Len(results) : results[i].status = "rejected"
    THEN [kind |-> "rejected", value |-> <<>>]
    ELSE [kind |-> "resolved", value |-> results]

\* await Promise.allSettled(promises): resolves with all the results
PromiseAllSettled(results) == [kind |-> "resolved", value |-> results]

\* the update of a title that goes by the position in the list
SetTitleAt(currentFeeds, fid, index, title) ==
    [k \in 1..Len(currentFeeds) |->
        IF k = index /\ currentFeeds[k].title # title
        THEN [currentFeeds[k] EXCEPT !.title = title]
        ELSE currentFeeds[k]]

\* currentFeeds.map(f => f.id === feedId && f.title !== title
\*                        ? { ...f, title } : f)
SetTitle(currentFeeds, fid, index, title) ==
    [k \in 1..Len(currentFeeds) |->
        IF currentFeeds[k].id = fid /\ currentFeeds[k].title # title
        THEN [currentFeeds[k] EXCEPT !.title = title]
        ELSE currentFeeds[k]]

RECURSIVE ForEachResult(_, _, _, _)
\* results.forEach((result, index) => ...) up to index n: the feed list
\* and allArticles after it; fs is the feed list of the closure
ForEachResult(results, fs, currentFeeds, n) ==
    IF n = 0
    THEN [feeds |-> currentFeeds, allArticles |-> <<>>]
    ELSE LET before == ForEachResult(results, fs, currentFeeds, n - 1)
             res == results[n]
         IN  IF res.status = "fulfilled"
             THEN [feeds |-> SetTitle(before.feeds, fs[n].id, n,
                                      res.title),
                   allArticles |-> before.allArticles \o res.articles]
             ELSE before

\* prev.filter(f => f.id !== id)
WithoutFeed(prev, id) == SelectSeq(prev, LAMBDA f : f.id # id)

\* a removal that leaves the articles alone
ArticlesLeft(prev, id) == prev

\* prev.filter(a => a.feedId !== id)
WithoutArticlesOf(prev, id) == SelectSeq(prev, LAMBDA a : a.feedId # id)

\* map.set(item.link, item) that adds an entry even when the key is there
MapSetAppends(entries, item) == Append(entries, item)

\* map.set(item.link, item) that leaves the value of a key that is there
MapSetKeepsFirst(entries, item) ==
    IF \E i \in 1..Len(entries) : entries[i].link = item.link
    THEN entries
    ELSE Append(entries, item)

\* map.set(item.link, item) on the entries of a Map, in insertion order: a
\* key that is there keeps its place and gets the new value
MapSet(entries, item) ==
    IF \E i \in 1..Len(entries) : entries[i].link = item.link
    THEN [i \in 1..Len(entries) |->
             IF entries[i].link = item.link THEN item ELSE entries[i]]
    ELSE Append(entries, item)

\* Array.from(new Map(items.map(item => [item.link, item])).values())
RECURSIVE UniqueByLink(_)
UniqueByLink(items) ==
    IF Len(items) = 0
    THEN <<>>
    ELSE MapSet(UniqueByLink(SubSeq(items, 1, Len(items) - 1)),
                items[Len(items)])

RECURSIVE Concat(_)
\* allArticles = [...allArticles, ...articles] over the results
Concat(lists) ==
    IF Len(lists) = 0 THEN <<>> ELSE Head(lists) \o Concat(Tail(lists))

(***************************************************************************)
(* summarizeContent (geminiService).                                       *)
(***************************************************************************)
\* text.slice(0, 5000)
SummaryMax == 5000

\* a settled promise
ResolvedWith(v) == [kind |-> "resolved", value |-> v]

RejectedWith(v) == [kind |-> "rejected", value |-> v]

NotSettled == [kind |-> "pending", value |-> ""]

\* "Nepodarilo se vygenerovat shrnuti."
NoSummary == "no summary"

\* "Omlouvame se, pri generovani shrnuti doslo k chybe."
Apology == "apology"

\* what ai.models.generateContent does: it resolves with a response whose
\* text is a summary, empty or undefined, or it rejects
Replies ==
    {ResolvedWith("summary"), ResolvedWith(""), ResolvedWith("undefined"),
     RejectedWith("ApiError")}

\* a request that carries the whole text
WholeText(text) == text

\* ${text.slice(0, 5000)}
SentText(text) == Slice(text, SummaryMax)

\* return response.text || "...", and the catch clause
SummaryOf(reply) ==
    IF reply.kind = "rejected"
    THEN ResolvedWith(Apology)
    ELSE IF reply.value \in {"", "undefined"}
    THEN ResolvedWith(NoSummary)
    ELSE ResolvedWith(reply.value)

SumIdle ==
    /\ sumText = EmptyStr
    /\ sumPc = "idle"
    /\ sumSent = EmptyStr
    /\ sumReply = NotSettled
    /\ sumOut = NotSettled

OtherIdle == SumIdle /\ issued = <<>> /\ BatchIdle /\ PairIdle /\ UiIdle

(***************************************************************************)
(* One top-level call fetchFeed(url, feedId).                              *)
(***************************************************************************)
BenchIdle ==
    /\ pIn = EmptyText
    /\ pFeedId = "f1"
    /\ pUrl = NullUrl
    /\ pOut = NoOutcome
    /\ pDone = FALSE
    /\ clock = 0
    /\ pOut2 = NoOutcome

Init ==
    /\ url \in URLs
    /\ feedId \in FeedIds
    /\ callUrl = url
    /\ callFeedId = feedId
    /\ pc = "start"
    /\ relayIdx = 0
    /\ attempts = <<>>
    /\ timerArmed = FALSE
    /\ stalled = FALSE
    /\ bodyText = EmptyText
    /\ lastError = NoError
    /\ rawText = EmptyText
    /\ error = NoError
    /\ discoveredUrl = NullUrl
    /\ discoveryInvoked = FALSE
    /\ xmlAttempted = FALSE
    /\ fallbackUrl = NullUrl
    /\ fallbackCalls = 0
    /\ result = NoResult
    /\ resultFrom = "none"
    /\ failure = NoError
    /\ served = [u \in URLs |-> Unset]
    /\ uuid = 0
    /\ response = NoResponse
    /\ BenchIdle
    /\ AppIdle
    /\ OtherIdle

Next ==
    \/ FetchFeedEnter
    \/ RelayUnreachable
    \/ TimerFires
    \/ RelayBadStatus
    \/ RelayResponds
    \/ BodyArrives
    \/ ParseStep
    \/ CatchBlock
    \/ FallbackUnreachable
    \/ FallbackResponds

Spec == Init /\ [][Next]_vars

\* the event loop runs every continuation whose event has arrived
FairSpec == Spec /\ WF_vars(Next)

(***************************************************************************)
(* The parse bench: parseXmlFeed applied to every text of at most MaxToks  *)
(* fragments.                                                              *)
(***************************************************************************)
RECURSIVE SeqsUpTo(_, _)
SeqsUpTo(S, n) ==
    IF n = 0
    THEN {<<>>}
    ELSE LET shorter == SeqsUpTo(S, n - 1)
         IN  shorter \cup {Append(q, x) : q \in shorter, x \in S}

Tags == Toks \ {"BOM", "WS", "txt"}

\* an XML document starts with a tag, after at most one byte-order-mark and
\* white space, and holds no other byte-order-mark
CanBeXml(toks) ==
    LET stripped == StripBom(toks)
        RECURSIVE SkipWs(_)
        SkipWs(q) == IF Len(q) > 0 /\ q[1] = "WS" THEN SkipWs(Tail(q)) ELSE q
    IN  /\ ~includes(stripped, "BOM")
        /\ Len(SkipWs(stripped)) > 0
        /\ SkipWs(stripped)[1] \in Tags

BenchDocs ==
    {XmlError,
     XmlErrorAt("mismatched tag"),
     XmlDoc("T", <<>>),
     XmlDoc("", <<Item("t1", "l1")>>),
     XmlDoc("T", <<Item("t1", "l1"), Item("", "l2")>>),
     XmlDoc("T", <<OtherEl("image", "T"), Entry("t1", "l1"), Item("t2", "l2")>>)}

BenchTexts ==
    {Text(t, x, <<>>) : t \in SeqsUpTo(Toks, MaxToks), x \in BenchDocs}

InitParse ==
    /\ pIn \in {t \in BenchTexts : ~t.xml.err => CanBeXml(t.toks)}
    /\ pFeedId \in FeedIds
    /\ pUrl \in {u \in URLs : u.host = "a.example"}
    /\ pOut = NoOutcome
    /\ pDone = FALSE
    /\ clock = 0
    /\ pOut2 = NoOutcome
    /\ url = NullUrl
    /\ feedId = "f1"
    /\ callUrl = NullUrl
    /\ callFeedId = "f1"
    /\ pc = "idle"
    /\ relayIdx = 0
    /\ attempts = <<>>
    /\ timerArmed = FALSE
    /\ stalled = FALSE
    /\ bodyText = EmptyText
    /\ lastError = NoError
    /\ rawText = EmptyText
    /\ error = NoError
    /\ discoveredUrl = NullUrl
    /\ discoveryInvoked = FALSE
    /\ xmlAttempted = FALSE
    /\ fallbackUrl = NullUrl
    /\ fallbackCalls = 0
    /\ result = NoResult
    /\ resultFrom = "none"
    /\ failure = NoError
    /\ served = [u \in URLs |-> Unset]
    /\ uuid = 0
    /\ response = NoResponse
    /\ AppIdle
    /\ OtherIdle

BenchParse ==
    /\ ~pDone
    /\ pOut' = parseXmlFeed(pIn, pFeedId, pUrl, uuid, clock)
    /\ pDone' = TRUE
    /\ UNCHANGED <<pIn, pFeedId, pUrl, clock, pOut2>>
    /\ UNCHANGED fetchVars
    /\ UNCHANGED appVars
    /\ UNCHANGED otherVars

NextParse == BenchParse

SpecParse == InitParse /\ [][NextParse]_vars

(***************************************************************************)
(* A bench for the mapping of one item: parseXmlFeed is called twice on    *)
(* the same text while the clock advances.                                 *)
(***************************************************************************)
\* the clock's last value
MaxClock == 1

BenchDates ==
    {<<>>,
     <<DateEl("pubDate", <<>>)>>,
     <<DateEl("pubDate", DateText(1))>>,
     <<DateEl("pubDate", <<>>), DateEl("date", DateText(1))>>,
     <<DateEl("published", DateText(1)), DateEl("updated", DateText(2))>>,
     <<DateEl("updated", DateText(2)), DateEl("published", DateText(1))>>}

\* HTML strings whose text is empty, short, or around the snippet's length
BenchHtml ==
    {h \in {Str(pre, txt, post, tags, img) :
                pre \in {0, 2},
                txt \in {0, 5, SnippetMax - 1, SnippetMax, SnippetMax + 1},
                post \in {0, 2},
                tags \in BOOLEAN,
                img \in {"none", "nosrc", "d.png"}} :
        /\ h.pre > 0 => h.tags
        /\ h.img # "none" => h.tags}

BenchEncoded == {EmptyStr, Str(0, 5, 0, TRUE, "e.png")}

BenchContents ==
    {<<>>,
     <<ContentEl("media", "m.jpg")>>,
     <<ContentEl("media", "")>>,
     <<ContentEl("atom", "null"), ContentEl("media", "m.jpg")>>}

BenchEnclosures ==
    {NoEnclosure,
     Enclosure("image/jpeg", "e.jpg"),
     Enclosure("image/jpeg", "null"),
     Enclosure("audio/mpeg", "a.mp3"),
     Enclosure("null", "x.jpg")}

BenchItems ==
    {FullItem("item", "t", "l", "", dates, encoded, description, contents,
              enclosure, "")  :
        dates \in BenchDates, encoded \in BenchEncoded,
        description \in BenchHtml, contents \in BenchContents,
        enclosure \in BenchEnclosures}

\* an item with a date and an item without one, in one document
DatedAndUndated ==
    <<Item("t1", "l1"),
      FullItem("item", "t2", "l2", "", <<>>, EmptyStr, EmptyStr, <<>>,
               NoEnclosure, "")>>

ItemTexts ==
    {Text(<<"<rss">>, XmlDoc("T", <<it>>), <<>>) : it \in BenchItems}
    \cup {Text(<<"<rss">>, XmlDoc("T", DatedAndUndated), <<>>),
          Text(<<"<rss">>, XmlError, <<>>)}

FetchIdle ==
    /\ url = NullUrl
    /\ feedId = "f1"
    /\ callUrl = NullUrl
    /\ callFeedId = "f1"
    /\ pc = "idle"
    /\ relayIdx = 0
    /\ attempts = <<>>
    /\ timerArmed = FALSE
    /\ stalled = FALSE
    /\ bodyText = EmptyText
    /\ lastError = NoError
    /\ rawText = EmptyText
    /\ error = NoError
    /\ discoveredUrl = NullUrl
    /\ discoveryInvoked = FALSE
    /\ xmlAttempted = FALSE
    /\ fallbackUrl = NullUrl
    /\ fallbackCalls = 0
    /\ result = NoResult
    /\ resultFrom = "none"
    /\ failure = NoError
    /\ served = [u \in URLs |-> Unset]
    /\ uuid = 0
    /\ response = NoResponse

InitItems ==
    /\ pIn \in ItemTexts
    /\ pFeedId = "f1"
    /\ pUrl = [host |-> "a.example", path |-> "/feed.xml"]
    /\ pOut = NoOutcome
    /\ pDone = FALSE
    /\ clock = 0
    /\ pOut2 = NoOutcome
    /\ FetchIdle
    /\ AppIdle
    /\ OtherIdle

\* time passes
Tick ==
    /\ clock < MaxClock
    /\ clock' = clock + 1
    /\ UNCHANGED <<pIn, pFeedId, pUrl, pOut, pDone, pOut2>>
    /\ UNCHANGED fetchVars
    /\ UNCHANGED appVars
    /\ UNCHANGED otherVars

\* a second call on the same text; the ids of the first call are used up
BenchParseAgain ==
    /\ pDone
    /\ pOut2.kind = "none"
    /\ pOut2' = parseXmlFeed(pIn, pFeedId, pUrl,
                             uuid + Len(pOut.value.articles), clock)
    /\ UNCHANGED <<pIn, pFeedId, pUrl, pOut, pDone, clock>>
    /\ UNCHANGED fetchVars
    /\ UNCHANGED appVars
    /\ UNCHANGED otherVars

NextItems ==
    \/ BenchParse
    \/ Tick
    \/ BenchParseAgain

SpecItems == InitItems /\ [][NextItems]_vars

(***************************************************************************)
(* Properties of the orchestrator and the transport layer.                 *)
(***************************************************************************)
Pending == pc \in {"awaitResponse", "readBody"}

\* C1: every fetchFeed call completes: the chain of re-entries that discovery
\* triggers is finite, so from some point on fetchFeed is never entered again.
C1_ChainFinite == <>[](pc # "start")

\* C2: when the direct chain failed with FeedDiscoveryError and discovery
\* returns the input URL or nothing, the catch block does not re-enter
\* fetchFeed: it calls the remote fallback, once, for the input URL.
C2_SameUrlGoesToFallback ==
    [][(/\ pc = "catch"
        /\ error.name = "FeedDiscoveryError"
        /\ getFeedUrlFromHtml(error.htmlContent, url) \in {NullUrl, url})
       => (/\ pc' = "fallbackWait"
           /\ url' = url
           /\ fallbackUrl' = url
           /\ fallbackCalls' = fallbackCalls + 1)]_vars

C2_Witness ==
    /\ pc = "fallbackWait"
    /\ error.name = "FeedDiscoveryError"
    /\ discoveryInvoked
    /\ discoveredUrl = url
    /\ fallbackUrl = url

\* C3: when the direct chain failed with an error that is no
\* FeedDiscoveryError, the catch block does not call discovery and its next
\* step is the remote fallback for the same URL.
C3_OtherErrorSkipsDiscovery ==
    [][(pc = "catch" /\ error.name # "FeedDiscoveryError")
       => (/\ pc' = "fallbackWait"
           /\ ~discoveryInvoked'
           /\ url' = url
           /\ fallbackUrl' = url)]_vars

C3_Witness ==
    /\ pc = "fallbackWait"
    /\ error.name = "Error"
    /\ error.src = "parse"
    /\ ~discoveryInvoked

\* C4: once every relay has failed, the remote fallback is called exactly
\* once, and a failure of the call is the fallback's error, never the
\* transport error.
C4_ExhaustionFallsBackOnce ==
    (error.src = "relay" /\ pc \in {"fallbackWait", "done", "failed"})
    => /\ fallbackCalls = 1
       /\ fallbackUrl = url
       /\ pc = "failed" => (failure.src = "fallback" /\ failure # error)
       /\ pc = "done" => resultFrom = "fallback"

C4_Witness ==
    /\ pc = "failed"
    /\ error.src = "relay"
    /\ Len(attempts) = NumRelays
    /\ failure.src = "fallback"
    /\ fallbackCalls = 1

\* C5: every article of the result has the feedId the caller passed, whether
\* the direct parse, a re-entry on a discovered URL or the fallback made it.
C5_ArticlesKeepFeedId ==
    pc = "done"
    => \A i \in 1..Len(result.articles) :
          result.articles[i].feedId = callFeedId

C5_Witness ==
    /\ pc = "done"
    /\ url # callUrl
    /\ Len(result.articles) > 0
    /\ resultFrom = "direct"

\* C6: the direct chain is tried first, and when it succeeds fetchFeed
\* returns the parsed result without calling discovery or the fallback.
C6_DirectSuccessReturns ==
    /\ resultFrom = "direct"
       => /\ pc = "done"
          /\ ~discoveryInvoked
          /\ fallbackCalls = 0
          /\ error = NoError
          /\ result = parseXmlFeed(rawText, feedId, url,
                                   uuid - Len(result.articles), clock).value
    /\ (discoveryInvoked \/ fallbackCalls > 0)
       => (error # NoError /\ Len(attempts) >= 1)

C6_Witness ==
    /\ pc = "done"
    /\ resultFrom = "direct"
    /\ Len(result.articles) = 2
    /\ fallbackCalls = 0

\* C7: the relays are tried in list order, each at most once; relay k+1 is
\* tried only after relay k failed; after a relay returned a non-empty body no
\* other relay is tried and that body is what fetchRawText returns.
C7_RelaysInOrder ==
    /\ Len(attempts) <= NumRelays
    /\ \A i \in 1..Len(attempts) : attempts[i] = i
    /\ Pending => relayIdx = Len(attempts)
    /\ (Pending /\ relayIdx > 1) => lastError.relay = relayIdx - 1
    /\ rawText # EmptyText
       => /\ rawText = bodyText
          /\ Len(trim(rawText.toks)) > 0
          /\ relayIdx = Len(attempts)
          /\ lastError.relay = relayIdx - 1

C7_Witness ==
    /\ pc = "parse"
    /\ attempts = <<1, 2, 3>>
    /\ rawText = FeedPage

\* C8: when every relay failed, fetchRawText throws the error of the last
\* relay of the list.
C8_LastRelayErrorThrown ==
    error.src = "relay"
    => /\ error.relay = NumRelays
       /\ error = lastError
       /\ Len(attempts) = NumRelays

C8_Witness ==
    /\ pc = "catch"
    /\ error.src = "relay"
    /\ error.relay = NumRelays
    /\ error.name = "AbortError"

\* C9: no relay attempt stays pending forever: the attempt on relay k ends,
\* whether it is waiting for the response or reading the body.
C9_AttemptEnds ==
    \A k \in 1..NumRelays :
        (Pending /\ relayIdx = k) ~> ~(Pending /\ relayIdx = k)

(***************************************************************************)
(* Properties of parseXmlFeed.                                             *)
(***************************************************************************)
HtmlStarts == {"<!DOCTYPE html", "<HTML", "<html"}

FeedMarkers == {"<rss", "<feed", "<rdf:RDF"}

\* the text without its leading byte-order-mark and white space
Body(toks) == TrimStart(toks)

StartsAsHtml(toks) == Len(Body(toks)) > 0 /\ Body(toks)[1] \in HtmlStarts

HasFeedMarker(toks) == \E i \in 1..Len(toks) : toks[i] \in FeedMarkers

\* C10: a text that starts as HTML and holds no feed marker makes
\* parseXmlFeed throw FeedDiscoveryError with the text and the original URL,
\* and the XML parser is not run.
C10_HtmlIsDiscoveryError ==
    (pDone /\ StartsAsHtml(pIn.toks) /\ ~HasFeedMarker(pIn.toks))
    => /\ pOut.kind = "throw"
       /\ pOut.error.name = "FeedDiscoveryError"
       /\ pOut.error.htmlContent = [pIn EXCEPT !.toks = StripBom(pIn.toks)]
       /\ pOut.error.originalUrl = pUrl
       /\ ~pOut.xmlParsed

C10_Witness ==
    /\ pDone
    /\ pIn.toks = <<"BOM", "WS", "<HTML">>
    /\ pOut.error.name = "FeedDiscoveryError"
    /\ pOut.error.originalUrl = pUrl

\* the literal markers the parser-error branch looks for
HtmlOrBodyMarkers == {"<html", "<body"}

HasHtmlOrBodyMarker(toks) == \E i \in 1..Len(toks) : toks[i] \in HtmlOrBodyMarkers

\* the text gets past the first HTML check and the XML parser rejects it
XmlParseFails(text) ==
    /\ text.xml.err
    /\ ~(StartsAsHtml(text.toks) /\ ~HasFeedMarker(text.toks))

\* C11: when the XML parser reports an error, parseXmlFeed throws
\* FeedDiscoveryError, unwrapped, if the text holds an html or body marker,
\* and otherwise a generic error whose message carries the parser's
\* diagnostic.
C11_ParserErrorKinds ==
    (pDone /\ XmlParseFails(pIn))
    => /\ pOut.kind = "throw"
       /\ pOut.xmlParsed
       /\ IF HasHtmlOrBodyMarker(pIn.toks)
          THEN /\ pOut.error.name = "FeedDiscoveryError"
               /\ pOut.error.originalUrl = pUrl
               /\ pOut.error.htmlContent.toks = StripBom(pIn.toks)
          ELSE /\ pOut.error.name = "Error"
               /\ pOut.error.message[Len(pOut.error.message)] = pIn.xml.diag

C11_Witness ==
    /\ pDone
    /\ XmlParseFails(pIn)
    /\ pIn.xml.diag = "mismatched tag"
    /\ HasHtmlOrBodyMarker(pIn.toks)
    /\ HasFeedMarker(pIn.toks)
    /\ pOut.xmlParsed
    /\ pOut.error.name = "FeedDiscoveryError"

\* the text gets past the first HTML check and is a well-formed document
WellFormedFeed(text) ==
    /\ ~text.xml.err
    /\ ~(StartsAsHtml(text.toks) /\ ~HasFeedMarker(text.toks))

ItemTags == {"item", "entry"}

\* the number of item and entry elements among the first i elements
Rank(els, i) == Cardinality({j \in 1..i : els[j].tag \in ItemTags})

\* what identifies an element: its title, and its link text or href
SameElement(article, el) ==
    /\ article.title = (IF el.title = "" THEN "Bez nazvu" ELSE el.title)
    /\ article.link = (IF el.link = "" THEN el.href ELSE el.link)

\* C12: for a well-formed feed with n item/entry elements parseXmlFeed
\* returns the channel title and exactly n articles, the k-th article made
\* from the k-th item/entry element of the document.
C12_ArticlesInDocumentOrder ==
    (pDone /\ WellFormedFeed(pIn))
    => LET els == pIn.xml.items
       IN  /\ pOut.kind = "return"
           /\ pIn.xml.title # "" => pOut.value.title = pIn.xml.title
           /\ Len(pOut.value.articles) = Rank(els, Len(els))
           /\ \A i \in 1..Len(els) :
                  els[i].tag \in ItemTags
                  => SameElement(pOut.value.articles[Rank(els, i)], els[i])

C12_Witness ==
    /\ pDone
    /\ WellFormedFeed(pIn)
    /\ pIn.xml.title # ""
    /\ Len(pIn.xml.items) = 3
    /\ Len(pOut.value.articles) = 2
    /\ pOut.value.articles[1].link = "l1"
    /\ pOut.value.articles[2].link = "l2"

(***************************************************************************)
(* A bench for getFeedUrlFromHtml: it is called once, on a page with link  *)
(* elements and a base.                                                    *)
(***************************************************************************)
\* the most link elements of a page
MaxLinks == 2

BenchHrefs ==
    {NoHref, EmptyHref, BadHref, RelHref("/feed.xml")}
    \cup {AbsHref(u) : u \in URLs}

BenchLinkEls ==
    {LinkEl(t, h) : t \in FeedTypes \cup {"text/css"}, h \in BenchHrefs}

BenchBases ==
    URLs \cup {[host |-> "a.example", path |-> "/page"],
               NoScheme("a.example/page")}

InitDiscover ==
    /\ pIn \in {HtmlPage(l) : l \in SeqsUpTo(BenchLinkEls, MaxLinks)}
    /\ pFeedId = "f1"
    /\ pUrl \in BenchBases
    /\ pOut = NoOutcome
    /\ pDone = FALSE
    /\ clock = 0
    /\ pOut2 = NoOutcome
    /\ FetchIdle
    /\ AppIdle
    /\ OtherIdle

BenchDiscover ==
    /\ ~discoveryInvoked
    /\ discoveredUrl' = getFeedUrlFromHtml(pIn, pUrl)
    /\ discoveryInvoked' = TRUE
    /\ UNCHANGED <<url, feedId, callUrl, callFeedId, pc, relayIdx, attempts,
                   timerArmed, stalled, bodyText, lastError, rawText, error,
                   xmlAttempted, fallbackUrl, fallbackCalls, result,
                   resultFrom, failure, served, uuid>>
    /\ UNCHANGED response
    /\ UNCHANGED benchVars
    /\ UNCHANGED appVars
    /\ UNCHANGED otherVars

NextDiscover == BenchDiscover

SpecDiscover == InitDiscover /\ [][NextDiscover]_vars

(***************************************************************************)
(* A bench for fetchWithRss2Json: it is called once and the conversion     *)
(* service answers with items of every shape.                              *)
(***************************************************************************)
BenchJsonItems ==
    {JsonItem(title, "l", DateText(1), content, description, thumbnail,
              enclosureLink, "undefined") :
        title \in {"t", "undefined"},
        content \in {UndefinedStr, EmptyStr, Str(0, 5, 0, TRUE, "c.png"),
                     Str(0, SnippetMax + 1, 0, FALSE, "none")},
        description \in {UndefinedStr, EmptyStr, Str(0, 5, 0, FALSE, "none"),
                         Str(0, SnippetMax, 0, TRUE, "d.png"),
                         Str(0, SnippetMax + 1, 0, TRUE, "none"),
                         Str(2, SnippetMax + 1, 2, TRUE, "none")},
        thumbnail \in {"undefined", "", "t.jpg"},
        enclosureLink \in {"undefined", "e.jpg"}}

BenchResponses ==
    Rss2JsonResponses
    \cup {Rss2JsonResponse(TRUE, "ok", "T2", <<it>>) : it \in BenchJsonItems}

InitFallback ==
    /\ pIn = EmptyText
    /\ pFeedId \in FeedIds
    /\ pUrl \in URLs
    /\ pOut = NoOutcome
    /\ pDone = FALSE
    /\ clock = 0
    /\ pOut2 = NoOutcome
    /\ FetchIdle
    /\ AppIdle
    /\ OtherIdle

\* fetchWithRss2Json(url, feedId) is called and sends its request
BenchFallbackCall ==
    /\ pc = "idle"
    /\ fallbackCalls = 0
    /\ fallbackUrl' = pUrl
    /\ feedId' = pFeedId
    /\ fallbackCalls' = fallbackCalls + 1
    /\ pc' = "fallbackWait"
    /\ UNCHANGED <<url, callUrl, callFeedId, relayIdx, attempts, timerArmed,
                   stalled, bodyText, lastError, rawText, error,
                   discoveredUrl, discoveryInvoked, xmlAttempted, result,
                   resultFrom, failure, served, uuid, response>>
    /\ UNCHANGED benchVars
    /\ UNCHANGED appVars
    /\ UNCHANGED otherVars

BenchFallbackResponds == FallbackRespondsWith(BenchResponses)

NextFallback ==
    \/ BenchFallbackCall
    \/ FallbackUnreachable
    \/ BenchFallbackResponds

SpecFallback == InitFallback /\ [][NextFallback]_vars

(***************************************************************************)
(* App: refreshFeeds, addFeed and removeFeed, with the fetches in flight.  *)
(* A fetchFeed call is taken by its outcome: it rejects, or resolves with  *)
(* articles that carry the feedId it was given.                            *)
(***************************************************************************)
\* the most articles one fetchFeed call resolves with
MaxArticles == 2

\* the most ids addFeed draws from crypto.randomUUID
MaxFeeds == 2

Links == {"l1", "l2"}

Rejected == [ok |-> FALSE, articles |-> <<>>]

Fulfilled(arts) == [ok |-> TRUE, articles |-> arts]

\* the outcomes of fetchFeed(url, fid)
FetchOutcomes(fid) ==
    {Rejected}
    \cup {Fulfilled([i \in 1..Len(ls) |-> AppArticle(ls[i], fid)]) :
             ls \in SeqsUpTo(Links, MaxArticles)}

RECURSIVE AllSettled(_)
\* the results of Promise.allSettled over the fetches of the feeds fs
AllSettled(fs) ==
    IF Len(fs) = 0
    THEN {<<>>}
    ELSE {<<o>> \o rest : o \in FetchOutcomes(Head(fs).id),
                          rest \in AllSettled(Tail(fs))}

\* the feed list the app starts with: the stored one, or the default
InitApp ==
    /\ feeds \in {<<>>, <<Feed(0, AppUrl("u1", FALSE))>>}
    /\ articles = <<>>
    /\ refreshing = NoRefresh
    /\ adding = NoAdd
    /\ merged = 0
    /\ FetchIdle
    /\ BenchIdle
    /\ OtherIdle

\* refreshFeeds up to its await
RefreshFeedsStart ==
    /\ ~refreshing.active
    /\ IF Len(feeds) = 0
       THEN /\ articles' = <<>>
            /\ UNCHANGED refreshing
       ELSE /\ refreshing' = [active |-> TRUE, feeds |-> feeds]
            /\ UNCHANGED articles
    /\ UNCHANGED <<feeds, adding, merged>>
    /\ UNCHANGED fetchVars
    /\ UNCHANGED benchVars
    /\ UNCHANGED otherVars

\* refreshFeeds from its await on: every fetch has settled
RefreshFeedsSettle ==
    /\ refreshing.active
    /\ \E results \in AllSettled(refreshing.feeds) :
          LET allArticles ==
                  Concat([i \in 1..Len(results) |-> results[i].articles])
          IN  /\ articles' = UniqueByLink(allArticles)
              /\ merged' = Len(allArticles)
    /\ refreshing' = NoRefresh
    /\ UNCHANGED <<feeds, adding>>
    /\ UNCHANGED fetchVars
    /\ UNCHANGED benchVars
    /\ UNCHANGED otherVars

\* addFeed(u) up to its await; an address already in the list is refused
AddFeedStart ==
    /\ ~adding.active
    /\ uuid < MaxFeeds
    /\ \E u \in AppUrls :
          /\ ~\E i \in 1..Len(feeds) :
                 StripSlash(feeds[i].url) = StripSlash(u)
          /\ adding' = [active |-> TRUE, url |-> u, id |-> uuid + 1]
    /\ uuid' = uuid + 1
    /\ UNCHANGED <<feeds, articles, refreshing, merged>>
    /\ UNCHANGED <<url, feedId, callUrl, callFeedId, pc, relayIdx, attempts,
                   timerArmed, stalled, bodyText, lastError, rawText, error,
                   discoveredUrl, discoveryInvoked, xmlAttempted, fallbackUrl,
                   fallbackCalls, result, resultFrom, failure, served,
                   response>>
    /\ UNCHANGED benchVars
    /\ UNCHANGED otherVars

\* addFeed from its await on
AddFeedSettle ==
    /\ adding.active
    /\ \E o \in FetchOutcomes(adding.id) :
          IF o.ok
          THEN LET combined == articles \o o.articles
               IN  /\ feeds' = Append(feeds, Feed(adding.id, adding.url))
                   /\ articles' = UniqueByLink(combined)
                   /\ merged' = Len(combined)
          ELSE UNCHANGED <<feeds, articles, merged>>
    /\ adding' = NoAdd
    /\ UNCHANGED refreshing
    /\ UNCHANGED fetchVars
    /\ UNCHANGED benchVars
    /\ UNCHANGED otherVars

\* removeFeed(id): the two state updates
removeFeed(id) ==
    /\ feeds' = WithoutFeed(feeds, id)
    /\ articles' = WithoutArticlesOf(articles, id)

\* removeFeed(id) for a feed of the list
RemoveFeed ==
    /\ \E i \in 1..Len(feeds) : removeFeed(feeds[i].id)
    /\ UNCHANGED <<refreshing, adding, merged>>
    /\ UNCHANGED fetchVars
    /\ UNCHANGED benchVars
    /\ UNCHANGED otherVars

NextApp ==
    \/ RefreshFeedsStart
    \/ RefreshFeedsSettle
    \/ AddFeedStart
    \/ AddFeedSettle
    \/ RemoveFeed

SpecApp == InitApp /\ [][NextApp]_vars

(***************************************************************************)
(* refreshFeeds fetch by fetch: every fetchFeed call of the batch settles  *)
(* on its own, in any order, with a title and articles or with a failure,  *)
(* while feeds are added and removed.                                      *)
(***************************************************************************)
BatchTitles == {"T0", "T1"}

BatchLinkLists == {<<"l1">>, <<"l2", "l1">>}

\* what fetchFeed(url, fid) settles with
FetchResults(fid) ==
    {RejectedResult}
    \cup {FulfilledResult(t, [i \in 1..Len(ls) |-> AppArticle(ls[i], fid)]) :
             t \in BatchTitles, ls \in BatchLinkLists}

InitBatch ==
    /\ feeds \in {<<>>, <<TitledFeed(0, AppUrl("u1", FALSE), "T0")>>}
    /\ articles = <<>>
    /\ refreshing = NoRefresh
    /\ adding = NoAdd
    /\ merged = 0
    /\ FetchIdle
    /\ BenchIdle
    /\ OtherIdle

\* refreshFeeds up to its await: the fetches of the feeds are started
RefreshFeedsCall ==
    /\ batch.pc # "waiting"
    /\ IF Len(feeds) = 0
       THEN /\ articles' = <<>>
            /\ UNCHANGED <<batch, appError>>
       ELSE /\ batch' = [pc |-> "waiting",
                         feeds |-> feeds,
                         results |-> [i \in 1..Len(feeds) |-> NotFetched],
                         order |-> <<>>]
            /\ appError' = NoAppError
            /\ UNCHANGED articles
    /\ UNCHANGED <<feeds, refreshing, adding, merged, removed, added>>
    /\ UNCHANGED <<fetchVars, benchVars, sumVars, issued, pairVars, uiVars>>

\* one fetchFeed call of the batch settles
FetchFeedSettles ==
    /\ batch.pc = "waiting"
    /\ \E i \in 1..Len(batch.results) :
          /\ batch.results[i].status = "pending"
          /\ \E r \in FetchResults(batch.feeds[i].id) :
                batch' = [batch EXCEPT !.results[i] = r,
                                       !.order = Append(@, i)]
    /\ UNCHANGED <<removed, added, appError>>
    /\ UNCHANGED <<fetchVars, benchVars, appVars, sumVars, issued,
                   pairVars, uiVars>>

\* refreshFeeds from its await on
RefreshFeedsResume ==
    /\ batch.pc = "waiting"
    /\ \A i \in 1..Len(batch.results) : batch.results[i].status # "pending"
    /\ LET joined == PromiseAllSettled(batch.results)
       IN  IF joined.kind = "resolved"
           THEN LET done == ForEachResult(joined.value, batch.feeds, feeds,
                                          Len(joined.value))
                IN  /\ feeds' = done.feeds
                    /\ articles' = UniqueByLink(done.allArticles)
                    /\ UNCHANGED appError
           ELSE /\ appError' = LoadError
                /\ UNCHANGED <<feeds, articles>>
    /\ batch' = [batch EXCEPT !.pc = "done"]
    /\ UNCHANGED <<refreshing, adding, merged, removed, added>>
    /\ UNCHANGED <<fetchVars, benchVars, sumVars, issued, pairVars, uiVars>>

\* addFeed("u2") up to its await
AddFeedCall ==
    /\ AddFeedStart
    /\ adding'.url = AppUrl("u2", FALSE)

\* addFeed from its await on
AddFeedResume ==
    /\ adding.active
    /\ \E r \in FetchResults(adding.id) :
          /\ added' = r
          /\ IF r.status = "fulfilled"
             THEN /\ feeds' = Append(feeds,
                                     TitledFeed(adding.id, adding.url,
                                                r.title))
                  /\ articles' = UniqueByLink(articles \o r.articles)
             ELSE UNCHANGED <<feeds, articles>>
    /\ adding' = NoAdd
    /\ UNCHANGED <<refreshing, merged, removed, batch, appError>>
    /\ UNCHANGED <<fetchVars, benchVars, sumVars, issued, pairVars, uiVars>>

\* removeFeed(id) for a feed of the list; the id is kept
RemoveFeedCall ==
    /\ \E i \in 1..Len(feeds) :
          /\ removeFeed(feeds[i].id)
          /\ removed' = removed \cup {feeds[i].id}
    /\ UNCHANGED <<refreshing, adding, merged, batch, added, appError>>
    /\ UNCHANGED <<fetchVars, benchVars, sumVars, issued, pairVars, uiVars>>

NextBatch ==
    \/ RefreshFeedsCall
    \/ FetchFeedSettles
    \/ RefreshFeedsResume
    \/ AddFeedCall
    \/ AddFeedResume
    \/ RemoveFeedCall

SpecBatch == InitBatch /\ [][NextBatch]_vars

(***************************************************************************)
(* Two fetchFeed calls in flight at once, resumed in any order, against a  *)
(* network whose answers are fixed: an answer depends on the address and   *)
(* the relay asked, not on the call that asks or on the moment.            *)
(***************************************************************************)
\* the most resumptions of one call
MaxSteps == 8

SiteUrl == [host |-> "a.example", path |-> "/"]

FeedUrl == [host |-> "a.example", path |-> "/feed.xml"]

PairUrls == {SiteUrl, FeedUrl}

\* what the origins serve
PairPages ==
    {[u \in PairUrls |-> IF u = SiteUrl THEN site ELSE feed] :
        site \in {FeedPage, GarbagePage,
                  HtmlPage(<<LinkEl("application/atom+xml",
                                    RelHref("/feed.xml"))>>),
                  HtmlPage(<<LinkEl("application/rss+xml",
                                    AbsHref(SiteUrl))>>)},
        feed \in {FeedPage, GarbagePage,
                  HtmlPage(<<LinkEl("application/rss+xml",
                                    AbsHref(SiteUrl))>>)}}

\* what the relays do, in the order of PROXIES
RelayPatterns ==
    {<<"body", "body", "body", "body">>,
     <<"reject", "status", "body", "body">>,
     <<"abort", "empty", "reject", "status">>}

PairFallbacks ==
    {NotJson,
     Rss2JsonResponse(TRUE, "ok", "T2",
                      <<PlainJsonItem("t1", "l1"), PlainJsonItem("t2", "l2")>>)}

Networks ==
    [page : PairPages,
     relay : [PairUrls -> RelayPatterns],
     fallback : [PairUrls -> PairFallbacks]]

InitPair ==
    /\ net \in Networks
    /\ \E u1 \in PairUrls, u2 \in PairUrls :
          calls = <<NewCall(u1, "f1"), NewCall(u2, "f2")>>
    /\ SumIdle
    /\ issued = <<>>
    /\ BatchIdle
    /\ UiIdle
    /\ FetchIdle
    /\ BenchIdle
    /\ AppIdle

\* one of the calls resumes after an await
CallResumes ==
    /\ \E c \in 1..Len(calls) :
          /\ InFlight(calls[c])
          /\ calls[c].steps < MaxSteps
          /\ LET next == Resume(Locals(calls, c), net, uuid, clock)
             IN  /\ calls' = [calls EXCEPT ![c] = next]
                 /\ uuid' = uuid + Len(next.outcome.value.articles)
    /\ UNCHANGED net
    /\ UNCHANGED <<url, feedId, callUrl, callFeedId, pc, relayIdx, attempts,
                   timerArmed, stalled, bodyText, lastError, rawText, error,
                   discoveredUrl, discoveryInvoked, xmlAttempted, fallbackUrl,
                   fallbackCalls, result, resultFrom, failure, served,
                   response>>
    /\ UNCHANGED <<benchVars, appVars, sumVars, issued, batchVars, uiVars>>

NextPair == CallResumes

SpecPair == InitPair /\ [][NextPair]_vars

(***************************************************************************)
(* The page in use: refreshFeeds is called on mount, by the timer and by   *)
(* the refresh button, addFeed by the form and by the quick-add buttons;   *)
(* the buttons are disabled while the loading flag is set.  Any number of  *)
(* calls up to MaxRunning is in flight, and they settle in any order.      *)
(***************************************************************************)
\* the most calls in flight
MaxRunning == 2

OverlapLinkLists == {<<"l1">>, <<"l1", "l2">>}

\* the outcomes of fetchFeed(url, fid)
OverlapOutcomes(fid) ==
    {Rejected}
    \cup {Fulfilled([i \in 1..Len(ls) |-> AppArticle(ls[i], fid)]) :
             ls \in OverlapLinkLists}

RECURSIVE OverlapSettled(_)
\* the results of Promise.allSettled over the fetches of the feeds fs
OverlapSettled(fs) ==
    IF Len(fs) = 0
    THEN {<<>>}
    ELSE {<<o>> \o rest : o \in OverlapOutcomes(Head(fs).id),
                          rest \in OverlapSettled(Tail(fs))}

\* the addresses typed into the form
SubmittedUrls == {AppUrl("u1", FALSE), AppUrl("u2", FALSE)}

\* the state after the effect of the initial load has called refreshFeeds
InitOverlap ==
    /\ feeds \in {<<>>, <<Feed(0, AppUrl("u1", FALSE))>>}
    /\ notificationsEnabled \in BOOLEAN
    /\ articles = <<>>
    /\ IF Len(feeds) = 0
       THEN /\ running = <<>>
            /\ isLoading = FALSE
       ELSE /\ running = <<RefreshCall(feeds, notificationsEnabled)>>
            /\ isLoading = TRUE
    /\ isAdding = FALSE
    /\ known = {}
    /\ isFirstLoad = TRUE
    /\ notices = <<>>
    /\ refreshing = NoRefresh
    /\ adding = NoAdd
    /\ merged = 0
    /\ SumIdle
    /\ issued = <<>>
    /\ BatchIdle
    /\ PairIdle
    /\ FetchIdle
    /\ BenchIdle

\* refreshFeeds up to its await
refreshFeeds ==
    /\ IF Len(feeds) = 0
       THEN /\ articles' = <<>>
            /\ UNCHANGED <<running, isLoading, appError>>
       ELSE /\ isLoading' = TRUE
            /\ appError' = NoAppError
            /\ running' = Append(running,
                                 RefreshCall(feeds, notificationsEnabled))
            /\ UNCHANGED articles
    /\ UNCHANGED <<feeds, isAdding, notificationsEnabled, known, isFirstLoad,
                   notices>>
    /\ UNCHANGED <<refreshing, adding, merged, batch, removed, added>>
    /\ UNCHANGED <<fetchVars, benchVars, sumVars, issued, pairVars>>

\* setInterval(() => { refreshFeeds(); }, refreshInterval)
TimerRefresh ==
    /\ Len(running) < MaxRunning
    /\ refreshFeeds

\* the refresh button, disabled={isLoading}
ClickRefresh ==
    /\ Len(running) < MaxRunning
    /\ ~isLoading
    /\ refreshFeeds

\* a refreshFeeds call resumes: every fetch of its batch has settled
RefreshSettles ==
    /\ \E i \in 1..Len(running) :
          /\ running[i].kind = "refresh"
          /\ \E results \in OverlapSettled(running[i].feeds) :
                LET allArticles ==
                        Concat([n \in 1..Len(results) |-> results[n].articles])
                    uniqueArticles == UniqueByLink(allArticles)
                    newItems == NewItems(uniqueArticles, known)
                IN  /\ notices' =
                           IF Notifies(isFirstLoad, running[i].enabled, newItems)
                           THEN Append(notices, newItems)
                           ELSE notices
                    /\ known' = KnownWith(known, uniqueArticles)
                    /\ articles' = uniqueArticles
          /\ running' = RemoveAt(running, i)
    /\ isFirstLoad' = FALSE
    /\ isLoading' = FALSE
    /\ UNCHANGED <<feeds, isAdding, notificationsEnabled>>
    /\ UNCHANGED <<refreshing, adding, merged, batchVars>>
    /\ UNCHANGED <<fetchVars, benchVars, sumVars, issued, pairVars>>

\* addFeed(u) up to its await; an address that is in the list is refused
addFeed(u, form) ==
    /\ ~IsListed(feeds, u)
    /\ uuid < MaxFeeds
    /\ isLoading' = TRUE
    /\ running' = Append(running, AddCall(u, randomUUID(uuid), form))
    /\ uuid' = uuid + 1
    /\ UNCHANGED <<feeds, articles, notificationsEnabled, known, isFirstLoad,
                   notices>>
    /\ UNCHANGED <<refreshing, adding, merged, batchVars>>
    /\ UNCHANGED <<url, feedId, callUrl, callFeedId, pc, relayIdx, attempts,
                   timerArmed, stalled, bodyText, lastError, rawText, error,
                   discoveredUrl, discoveryInvoked, xmlAttempted, fallbackUrl,
                   fallbackCalls, result, resultFrom, failure, served,
                   response>>
    /\ UNCHANGED <<benchVars, sumVars, issued, pairVars>>

\* handleSubmit of the form, whose button is disabled={isAdding || isLoading}
HandleSubmit ==
    /\ Len(running) < MaxRunning
    /\ ~isAdding
    /\ ~isLoading
    /\ \E u \in SubmittedUrls : addFeed(u, TRUE)
    /\ isAdding' = TRUE

\* a quick-add button, shown while the list is empty, disabled={isLoading}
ClickQuickAdd ==
    /\ Len(running) < MaxRunning
    /\ Len(feeds) = 0
    /\ ~isLoading
    /\ addFeed(AppUrl("u1", TRUE), FALSE)
    /\ UNCHANGED isAdding

\* an addFeed call resumes: its fetch has settled
AddSettles ==
    /\ \E i \in 1..Len(running) :
          /\ running[i].kind = "add"
          /\ \E o \in OverlapOutcomes(running[i].id) :
                IF o.ok
                THEN LET unique == UniqueByLink(articles \o o.articles)
                     IN  /\ feeds' = Append(feeds, Feed(running[i].id,
                                                         running[i].url))
                         /\ articles' = unique
                         /\ known' = KnownWith(known, unique)
                ELSE UNCHANGED <<feeds, articles, known>>
          /\ isAdding' = IF running[i].form THEN FALSE ELSE isAdding
          /\ running' = RemoveAt(running, i)
    /\ isLoading' = FALSE
    /\ UNCHANGED <<notificationsEnabled, isFirstLoad, notices>>
    /\ UNCHANGED <<refreshing, adding, merged, batchVars>>
    /\ UNCHANGED <<fetchVars, benchVars, sumVars, issued, pairVars>>

\* the remove button of a feed
ClickRemove ==
    /\ \E i \in 1..Len(feeds) : removeFeed(feeds[i].id)
    /\ UNCHANGED uiVars
    /\ UNCHANGED <<refreshing, adding, merged, batchVars>>
    /\ UNCHANGED <<fetchVars, benchVars, sumVars, issued, pairVars>>

\* toggleNotifications, when the permission is granted
toggleNotifications ==
    /\ notificationsEnabled' = ~notificationsEnabled
    /\ UNCHANGED <<running, isLoading, isAdding, known, isFirstLoad, notices>>
    /\ UNCHANGED <<appVars, batchVars>>
    /\ UNCHANGED <<fetchVars, benchVars, sumVars, issued, pairVars>>

NextOverlap ==
    \/ TimerRefresh
    \/ ClickRefresh
    \/ RefreshSettles
    \/ HandleSubmit
    \/ ClickQuickAdd
    \/ AddSettles
    \/ ClickRemove
    \/ toggleNotifications

SpecOverlap == InitOverlap /\ [][NextOverlap]_vars

(***************************************************************************)
(* The page while no feed is removed.  removeFeed writes neither the set   *)
(* of known links nor the notifications, it only filters the stored        *)
(* articles and the list; the calls that write them are all here, with     *)
(* the switch of the notifications thrown at any moment between them.      *)
(***************************************************************************)
NextNotify ==
    \/ TimerRefresh
    \/ ClickRefresh
    \/ RefreshSettles
    \/ HandleSubmit
    \/ ClickQuickAdd
    \/ AddSettles
    \/ toggleNotifications

SpecNotify == InitOverlap /\ [][NextNotify]_vars

(***************************************************************************)
(* The ids of the articles: feeds are parsed and converted one after the   *)
(* other and every article produced is kept with its id.                   *)
(***************************************************************************)
\* the most ids drawn before the last result
MaxIssued == 5

IdDocs ==
    {XmlDoc("T", <<>>),
     XmlDoc("T", <<Item("t1", "l1")>>),
     XmlDoc("T", <<Item("t1", "l1"), Entry("t2", "l2")>>),
     XmlDoc("T", <<Item("t1", "l1"), Item("t1", "l1")>>)}

\* the articles of a result, as produced by the strategy via
IssuedBy(arts, via) ==
    [i \in 1..Len(arts) |->
        [link |-> arts[i].link, id |-> arts[i].id,
         feedId |-> arts[i].feedId, via |-> via]]

InitIds ==
    /\ issued = <<>>
    /\ SumIdle
    /\ BatchIdle
    /\ UiIdle
    /\ PairIdle
    /\ FetchIdle
    /\ BenchIdle
    /\ AppIdle

\* parseXmlFeed returns the articles of a feed
IdsParse ==
    /\ uuid < MaxIssued
    /\ \E doc \in IdDocs, fid \in {"f1", "f2"} :
          LET out == parseXmlFeed(Text(<<"<rss">>, doc, <<>>), fid,
                                  [host |-> "a.example", path |-> "/"],
                                  uuid, clock)
          IN  /\ issued' = issued \o IssuedBy(out.value.articles, "direct")
              /\ uuid' = uuid + Len(out.value.articles)
    /\ UNCHANGED <<url, feedId, callUrl, callFeedId, pc, relayIdx, attempts,
                   timerArmed, stalled, bodyText, lastError, rawText, error,
                   discoveredUrl, discoveryInvoked, xmlAttempted, fallbackUrl,
                   fallbackCalls, result, resultFrom, failure, served,
                   response>>
    /\ UNCHANGED <<benchVars, appVars, sumVars, batchVars, pairVars, uiVars>>

\* fetchWithRss2Json returns the articles of a feed
IdsFallback ==
    /\ uuid < MaxIssued
    /\ \E res \in Rss2JsonResponses, fid \in {"f1", "f2"} :
          LET out == fetchWithRss2Json(res, fid, uuid)
          IN  /\ issued' = issued \o IssuedBy(out.value.articles, "fallback")
              /\ uuid' = uuid + Len(out.value.articles)
    /\ UNCHANGED <<url, feedId, callUrl, callFeedId, pc, relayIdx, attempts,
                   timerArmed, stalled, bodyText, lastError, rawText, error,
                   discoveredUrl, discoveryInvoked, xmlAttempted, fallbackUrl,
                   fallbackCalls, result, resultFrom, failure, served,
                   response>>
    /\ UNCHANGED <<benchVars, appVars, sumVars, batchVars, pairVars, uiVars>>

NextIds ==
    \/ IdsParse
    \/ IdsFallback

SpecIds == InitIds /\ [][NextIds]_vars

(***************************************************************************)
(* summarizeContent, called once on a text.                                *)
(***************************************************************************)
\* article texts that are empty, short, or around the length sent
SumTexts ==
    {Str(pre, txt, post, FALSE, "none") :
        pre \in {0, 1, 2},
        txt \in {0, 1, SummaryMax - 1, SummaryMax, SummaryMax + 1},
        post \in {0, 1, 2}}

InitSummarize ==
    /\ sumText \in SumTexts
    /\ sumPc = "idle"
    /\ sumSent = EmptyStr
    /\ sumReply = NotSettled
    /\ sumOut = NotSettled
    /\ issued = <<>>
    /\ BatchIdle
    /\ UiIdle
    /\ PairIdle
    /\ FetchIdle
    /\ BenchIdle
    /\ AppIdle

\* summarizeContent(text) up to its await
SummarizeStart ==
    /\ sumPc = "idle"
    /\ sumSent' = SentText(sumText)
    /\ sumPc' = "await"
    /\ UNCHANGED <<sumText, sumReply, sumOut>>
    /\ UNCHANGED <<fetchVars, benchVars, appVars, issued, batchVars,
                   pairVars, uiVars>>

\* generateContent settles and summarizeContent returns
SummarizeSettle ==
    /\ sumPc = "await"
    /\ \E reply \in Replies :
          /\ sumReply' = reply
          /\ sumOut' = SummaryOf(reply)
    /\ sumPc' = "done"
    /\ UNCHANGED <<sumText, sumSent>>
    /\ UNCHANGED <<fetchVars, benchVars, appVars, issued, batchVars,
                   pairVars, uiVars>>

NextSummarize ==
    \/ SummarizeStart
    \/ SummarizeSettle

SpecSummarize == InitSummarize /\ [][NextSummarize]_vars

(***************************************************************************)
(* Properties of the mapping of one item.                                  *)
(***************************************************************************)
BothParsed == pDone /\ pOut2.kind # "none"

\* the fields two parses of one text are compared on, the date aside
SameButDate(a, b) ==
    /\ a.link = b.link
    /\ a.content = b.content
    /\ a.contentSnippet = b.contentSnippet

SameOutcomeKind ==
    /\ pOut2.kind = pOut.kind
    /\ pOut2.value.title = pOut.value.title
    /\ Len(pOut2.value.articles) = Len(pOut.value.articles)

\* C13 as stated: two parseXmlFeed calls on the same text, at any two times,
\* give the same title and, article by article, the same link, date, content
\* and snippet.
C13_Idempotent ==
    BothParsed
    => /\ SameOutcomeKind
       /\ \A i \in 1..Len(pOut.value.articles) :
              /\ SameButDate(pOut.value.articles[i], pOut2.value.articles[i])
              /\ pOut2.value.articles[i].pubDate = pOut.value.articles[i].pubDate

\* C13, amended: two parseXmlFeed calls on the same text, at any two times,
\* give the same title and, article by article, the same link, content and
\* snippet, and the same date for every item whose first date element has
\* text; the ids differ.
C13_IdempotentButDefaultDate ==
    BothParsed
    => /\ SameOutcomeKind
       /\ \A i \in 1..Len(pOut.value.articles) :
              LET a == pOut.value.articles[i]
                  b == pOut2.value.articles[i]
                  item == pIn.xml.items[i]
              IN  /\ SameButDate(a, b)
                  /\ (Len(item.dates) > 0 /\ item.dates[1].text # <<>>)
                     => b.pubDate = a.pubDate
                  /\ \A j \in 1..Len(pOut.value.articles) :
                         b.id # pOut.value.articles[j].id

\* a dated and an undated item parsed at two different times
C13_Witness ==
    /\ BothParsed
    /\ Len(pOut.value.articles) = 2
    /\ pOut2.value.articles[1].pubDate = pOut.value.articles[1].pubDate
    /\ pOut2.value.articles[2].pubDate # pOut.value.articles[2].pubDate
    /\ pOut2.value.articles[1].id # pOut.value.articles[1].id

\* the content the code chooses for an item: content:encoded, else the
\* description
Chosen(item) ==
    IF Length(item.encoded) > 0 \/ item.encoded.tags THEN item.encoded
    ELSE item.description

\* the characters of the plain text of a content
PlainLength(content) == content.pre + content.txt + content.post

\* s has no tag and no image element
NoMarkup(s) == ~s.tags /\ s.img = "none"

\* the first n characters of plain text p: white space, text, white space
CutTo(p, n) ==
    [pre |-> Min(p.pre, n),
     txt |-> Min(p.txt, IF n > p.pre THEN n - p.pre ELSE 0),
     post |-> Min(p.post, IF n > p.pre + p.txt THEN n - p.pre - p.txt ELSE 0)]

Shape(s) == [pre |-> s.pre, txt |-> s.txt, post |-> s.post]

\* what trim leaves of a shape
Trimmed(sh) == [pre |-> 0, txt |-> sh.txt, post |-> 0]

ParsedItems == pDone /\ pOut.kind = "return"

\* C14 as stated: every contentSnippet has at most 303 characters and no
\* markup, and is the plain text of the chosen content cut to 300
\* characters, with the ellipsis appended exactly when the plain text was
\* longer than 300 characters.
C14_SnippetIsCutPlainText ==
    ParsedItems
    => \A i \in 1..Len(pOut.value.articles) :
          LET snippet == pOut.value.articles[i].contentSnippet
              plain == Chosen(pIn.xml.items[i])
          IN  /\ Length(snippet) <= SnippetMax + 3
              /\ NoMarkup(snippet)
              /\ Shape(snippet) = CutTo(plain, SnippetMax)
              /\ (snippet.dots = 3) = (PlainLength(plain) > SnippetMax)
              /\ snippet.dots \in {0, 3}

\* C14, amended: every contentSnippet has at most 303 characters and no
\* markup, and is the plain text of the chosen content cut to 300
\* characters and then trimmed of the white space around it, with the
\* ellipsis appended exactly when the plain text was longer than 300
\* characters.
C14_SnippetIsTrimmedCut ==
    ParsedItems
    => \A i \in 1..Len(pOut.value.articles) :
          LET snippet == pOut.value.articles[i].contentSnippet
              plain == Chosen(pIn.xml.items[i])
          IN  /\ Length(snippet) <= SnippetMax + 3
              /\ NoMarkup(snippet)
              /\ Shape(snippet) = Trimmed(CutTo(plain, SnippetMax))
              /\ (snippet.dots = 3) = (PlainLength(plain) > SnippetMax)
              /\ snippet.dots \in {0, 3}

\* a marked-up description one character longer than the cut, with white
\* space around its text
C14_Witness ==
    /\ ParsedItems
    /\ Len(pOut.value.articles) = 1
    /\ pIn.xml.items[1].encoded = EmptyStr
    /\ pIn.xml.items[1].description.tags
    /\ pIn.xml.items[1].description.pre = 2
    /\ pIn.xml.items[1].description.txt = SnippetMax + 1
    /\ pOut.value.articles[1].contentSnippet.txt = SnippetMax - 2
    /\ Length(pOut.value.articles[1].contentSnippet) = SnippetMax + 1

DatePriority == <<"pubDate", "published", "updated", "date">>

\* the texts of the item's date elements called name, in document order
TextsOf(item, name) ==
    SelectSeq(item.dates, LAMBDA el : el.name = name /\ el.text # <<>>)

\* the places of the priority order that the item has an element for
PresentAt(item) ==
    {k \in 1..Len(DatePriority) : Len(TextsOf(item, DatePriority[k])) > 0}

FirstPresent(item) ==
    LET k == CHOOSE k \in PresentAt(item) : \A m \in PresentAt(item) : k <= m
    IN  TextsOf(item, DatePriority[k])[1].text

IsTimestamp(date) == Len(date) = 2 /\ date[1] = "now"

\* C15: the publish date of an article is the text of the item's first
\* present element in the order pubDate, published, updated, date, wherever
\* those elements stand in the item, and the time of the call only when the
\* item has none of them.
C15_DateByPriority ==
    ParsedItems
    => \A i \in 1..Len(pOut.value.articles) :
          LET item == pIn.xml.items[i]
              pubDate == pOut.value.articles[i].pubDate
          IN  IF PresentAt(item) # {}
              THEN pubDate = FirstPresent(item)
              ELSE IsTimestamp(pubDate)

\* the urls of the item's media content elements, in document order
MediaUrls(item) ==
    LET media == SelectSeq(item.contents,
                           LAMBDA el : el.ns = "media" /\ el.url \notin {"null", ""})
    IN  [k \in 1..Len(media) |-> media[k].url]

EnclosureUrls(item) ==
    IF /\ item.enclosure.present
       /\ item.enclosure.type \in {"image/jpeg", "image/png"}
       /\ item.enclosure.url \notin {"null", ""}
    THEN <<item.enclosure.url>>
    ELSE <<>>

InlineUrls(item) ==
    IF Chosen(item).img \notin {"none", "nosrc"}
    THEN <<Chosen(item).img>>
    ELSE <<>>

Absent(thumbnail) == thumbnail \in {"", "null"}

\* C16: the thumbnail is the url of a media content element; else the url
\* of an image enclosure; else the first inline image of the content; else
\* absent: a lower source is used whenever every higher one yields no URL.
C16_ThumbnailByPriority ==
    ParsedItems
    => \A i \in 1..Len(pOut.value.articles) :
          LET item == pIn.xml.items[i]
              urls == MediaUrls(item) \o EnclosureUrls(item) \o InlineUrls(item)
              thumbnail == pOut.value.articles[i].thumbnail
          IN  IF Len(urls) > 0 THEN thumbnail = urls[1] ELSE Absent(thumbnail)

(***************************************************************************)
(* Properties of getFeedUrlFromHtml.                                       *)
(***************************************************************************)
\* the places of the page's link elements typed as a feed
TypedAt(links) ==
    {i \in 1..Len(links) :
        links[i].type \in {"application/rss+xml", "application/atom+xml"}}

FirstTyped(links) ==
    links[CHOOSE i \in TypedAt(links) : \A j \in TypedAt(links) : i <= j]

\* what the reference means from the base, when it means anything
Resolved(href, base) ==
    CASE href.kind = "abs" -> [host |-> href.host, path |-> href.path]
      [] href.kind = "rel" /\ base.host # "" ->
             [host |-> base.host, path |-> href.path]
      [] OTHER -> [host |-> href.host, path |-> href.path]

\* C17: getFeedUrlFromHtml returns the href of the first link element typed
\* application/rss+xml or application/atom+xml, resolved against the base
\* or raw if it does not resolve, and null if the page has no such element.
C17_FirstTypedLinkResolved ==
    discoveryInvoked
    => IF TypedAt(pIn.links) = {}
       THEN discoveredUrl = NullUrl
       ELSE LET href == FirstTyped(pIn.links).href
            IN  IF href.kind \in {"none", "empty"}
                THEN discoveredUrl = NullUrl
                ELSE discoveredUrl = Resolved(href, pUrl)

\* /feed.xml on the page a.example/page, after a link of another type
C17_Witness ==
    /\ discoveryInvoked
    /\ Len(pIn.links) = 2
    /\ pIn.links[1].type = "text/css"
    /\ pIn.links[1].href.kind = "abs"
    /\ pIn.links[2].type = "application/rss+xml"
    /\ pIn.links[2].href = RelHref("/feed.xml")
    /\ pUrl = [host |-> "a.example", path |-> "/page"]
    /\ discoveredUrl = [host |-> "a.example", path |-> "/feed.xml"]

(***************************************************************************)
(* Properties of fetchWithRss2Json.                                        *)
(***************************************************************************)
Answered == response.status # "none"

SuccessAndOk(res) == res.ok /\ res.json /\ res.status = "ok"

\* C18: a fetchWithRss2Json call sends one request and no second one on any
\* outcome; it fails when the response status is not a success or the
\* status field of the body is not ok, and returns a result otherwise.
C18_OneRequestNoRetry ==
    /\ fallbackCalls <= 1
    /\ pc = "fallbackWait" => fallbackCalls = 1 /\ ~Answered
    /\ Answered
       => /\ fallbackCalls = 1
          /\ IF SuccessAndOk(response)
             THEN pc = "done" /\ resultFrom = "fallback"
             ELSE pc = "failed" /\ failure.src = "fallback"

C18_Witness ==
    /\ Answered
    /\ response.ok
    /\ response.status = "error"
    /\ pc = "failed"
    /\ fallbackCalls = 1
    /\ Len(attempts) = NumRelays

Missing(s) == PlainLength(s) = 0 /\ ~s.tags

\* the snippet is tag-free and is text cut to 300 characters, with the
\* ellipsis when something was cut off
SnippetOf(snippet, text) ==
    /\ NoMarkup(snippet)
    /\ Shape(snippet) = CutTo(text, SnippetMax)
    /\ (snippet.dots = 3) = (PlainLength(text) > SnippetMax)
    /\ snippet.dots \in {0, 3}

\* C19: for every ok response fetchWithRss2Json returns one article per
\* item; content, description and thumbnail that are missing give empty
\* values, and the snippet is tag-free text of at most 300 characters plus
\* the ellipsis if it was truncated.
C19_FallbackArticles ==
    (Answered /\ SuccessAndOk(response))
    => /\ pc = "done"
       /\ Len(result.articles) = Len(response.items)
       /\ \A i \in 1..Len(result.articles) :
              LET item == response.items[i]
                  article == result.articles[i]
              IN  /\ (Missing(item.content) /\ Missing(item.description))
                     => /\ article.content = EmptyStr
                        /\ article.contentSnippet = EmptyStr
                  /\ (item.thumbnail \in {"undefined", ""}
                        /\ item.enclosureLink = "undefined")
                     => article.thumbnail \in {"undefined", ""}
                  /\ \/ SnippetOf(article.contentSnippet, item.description)
                     \/ SnippetOf(article.contentSnippet, item.content)

(***************************************************************************)
(* Properties of the App.                                                  *)
(***************************************************************************)
\* C20: whatever refreshFeeds and addFeed calls have completed, the stored
\* article list holds at most one article per link.
C20_OneArticlePerLink ==
    \A i \in 1..Len(articles) :
        \A j \in 1..Len(articles) :
            articles[i].link = articles[j].link => i = j

\* a merge that was given more articles than it stored, of two feeds
C20_Witness ==
    /\ merged > Len(articles)
    /\ Len(articles) = 2
    /\ articles[1].feedId # articles[2].feedId
    /\ ~refreshing.active
    /\ ~adding.active

(***************************************************************************)
(* Properties of fetchFeed and parseXmlFeed, continued.                    *)
(***************************************************************************)
\* the direct chain of the running call has failed and gives no new URL
ChainEndsHere ==
    /\ error.name # "none"
    /\ error.name = "FeedDiscoveryError"
       => getFeedUrlFromHtml(error.htmlContent, url) \in {NullUrl, url}

\* C28: in one top-level fetchFeed call with its re-entries the fallback is
\* called at most once, and then for the URL the chain of discoveries
\* ended on, whose own direct chain failed without giving a new URL.
C28_FallbackForLastUrl ==
    /\ [](/\ fallbackCalls <= 1
          /\ fallbackCalls = 1
             => /\ fallbackUrl = url
                /\ ChainEndsHere
                /\ pc \in {"fallbackWait", "done", "failed"})
    /\ [][fallbackCalls' # fallbackCalls
           => (pc = "catch" /\ fallbackCalls = 0 /\ url' = url)]_vars

\* the fallback is called for a discovered URL
C28_Witness ==
    /\ fallbackCalls = 1
    /\ fallbackUrl # callUrl
    /\ pc = "fallbackWait"

\* C29: a text that starts as HTML, holds a feed marker and is rejected by
\* the XML parser makes parseXmlFeed throw FeedDiscoveryError, not a generic
\* error.
C29_HtmlChecksAgree ==
    (pDone /\ StartsAsHtml(pIn.toks) /\ HasFeedMarker(pIn.toks) /\ pIn.xml.err)
    => /\ pOut.kind = "throw"
       /\ pOut.error.name = "FeedDiscoveryError"

(***************************************************************************)
(* Properties of summarizeContent.                                         *)
(***************************************************************************)
\* C25: summarizeContent settles by resolving with a string, whatever the
\* text-generation call did; a failure of that call gives the apology
\* string; the request carries the first 5000 characters of the text and
\* no more.
C25_SummarizeNeverFails ==
    /\ sumPc # "idle"
       => /\ Length(sumSent) <= SummaryMax
          /\ Shape(sumSent) = CutTo(sumText, SummaryMax)
    /\ sumPc = "done"
       => /\ sumOut.kind = "resolved"
          /\ sumOut.value \notin {"", "undefined"}
          /\ sumReply.kind = "rejected" => sumOut.value = Apology

\* a text of 5001 characters after white space, and a call that failed
C25_Witness ==
    /\ sumPc = "done"
    /\ sumText.pre = 2
    /\ sumText.txt = SummaryMax + 1
    /\ Length(sumSent) = SummaryMax
    /\ sumReply.kind = "rejected"
    /\ sumOut = ResolvedWith(Apology)

(***************************************************************************)
(* Properties of the ids.                                                  *)
(***************************************************************************)
\* C24: the ids of all articles produced, within one result, across
\* fetches of the same feed and across the direct and the fallback
\* strategy, are pairwise distinct.
C24_IdsPairwiseDistinct ==
    \A i \in 1..Len(issued) :
        \A j \in 1..Len(issued) :
            issued[i].id = issued[j].id => i = j

\* the same link twice in one result, and again from the fallback
C24_Witness ==
    /\ Len(issued) >= 3
    /\ issued[1].link = issued[2].link
    /\ issued[1].via = "direct"
    /\ issued[2].via = "direct"
    /\ issued[3].link = issued[1].link
    /\ issued[3].feedId = issued[1].feedId
    /\ issued[3].via = "fallback"

(***************************************************************************)
(* Properties of removeFeed.                                               *)
(***************************************************************************)
FeedIdsOf(fs) == {fs[i].id : i \in 1..Len(fs)}

\* the sequence s without the elements at the positions drop
Without(s, drop) ==
    LET keep(i) == Cardinality({j \in 1..i : j \notin drop})
        n == keep(Len(s))
    IN  [k \in 1..n |->
            s[CHOOSE i \in 1..Len(s) : i \notin drop /\ keep(i) = k]]

\* C26: a removeFeed(id) step leaves no feed with that id and no article
\* of that feed, and leaves every other feed and every article of the
\* other feeds as they were, in their order.
C26_RemoveFeedFrame ==
    [][removed' # removed =>
          \E id \in removed' \ removed :
              /\ id \notin FeedIdsOf(feeds')
              /\ \A i \in 1..Len(articles') : articles'[i].feedId # id
              /\ feeds' =
                     Without(feeds,
                             {i \in 1..Len(feeds) : feeds[i].id = id})
              /\ articles' =
                     Without(articles,
                             {i \in 1..Len(articles) :
                                  articles[i].feedId = id})]_vars

\* the default feed was removed while a refresh was in flight; the feed
\* added before and its article are still there
C26_Witness ==
    /\ removed = {0}
    /\ Len(feeds) = 1
    /\ feeds[1].id = 1
    /\ Len(articles) = 1
    /\ articles[1].feedId = 1
    /\ batch.pc = "waiting"
    /\ Len(batch.feeds) = 2

\* C30: every stored article belongs to a feed of the feed list.
C30_ArticlesOfListedFeeds ==
    \A i \in 1..Len(articles) : articles[i].feedId \in FeedIdsOf(feeds)

(***************************************************************************)
(* Properties of a refreshFeeds batch.                                     *)
(***************************************************************************)
BatchDone == batch.pc = "done"

\* the refresh resumes after its await
Resumes == batch.pc = "waiting" /\ batch'.pc = "done"

\* the title the feed at position i of the batch must have afterwards
TitleAfter(i) ==
    IF batch.results[i].status = "fulfilled"
    THEN batch.results[i].title
    ELSE batch.feeds[i].title

IdsAndUrls(fs) == [k \in 1..Len(fs) |-> <<fs[k].id, fs[k].url>>]

\* C27: once a batch is complete, a feed of the batch that is still in the
\* list has the fetched title if its fetch succeeded and the title it had
\* when the batch started if it failed; the steps of a refresh leave the
\* ids and urls of the list as they are.
C27_TitlesAfterBatch ==
    /\ [](BatchDone =>
            \A i \in 1..Len(batch.feeds) :
                \A k \in 1..Len(feeds) :
                    feeds[k].id = batch.feeds[i].id
                        => feeds[k].title = TitleAfter(i))
    /\ [][batch' # batch => IdsAndUrls(feeds') = IdsAndUrls(feeds)]_vars

\* of two feeds the first was removed while the batch was in flight; the
\* second got its new title
C27_Witness ==
    /\ BatchDone
    /\ Len(batch.feeds) = 2
    /\ batch.results[1].status = "fulfilled"
    /\ batch.results[2].status = "fulfilled"
    /\ batch.results[2].title # batch.feeds[2].title
    /\ batch.results[1].title # batch.results[2].title
    /\ Len(feeds) = 1
    /\ feeds[1].id = batch.feeds[2].id
    /\ feeds[1].title = batch.results[2].title

\* C22: when a refresh resumes, whatever feeds of the batch failed, the
\* error state stays empty, the batch completes, and every link of an
\* article of a fulfilled result is in the article list stored.
C22_FailuresAreTolerated ==
    /\ [](batch.pc \in {"waiting", "done"} => appError = NoAppError)
    /\ [][Resumes =>
             \A i \in 1..Len(batch.results) :
                 batch.results[i].status = "fulfilled" =>
                     \A n \in 1..Len(batch.results[i].articles) :
                         \E k \in 1..Len(articles') :
                             articles'[k].link
                                 = batch.results[i].articles[n].link]_vars

\* of two feeds the first failed; the articles of the second are stored
C22_Witness ==
    /\ BatchDone
    /\ Len(batch.feeds) = 2
    /\ batch.results[1].status = "rejected"
    /\ batch.results[2].status = "fulfilled"
    /\ articles = batch.results[2].articles
    /\ Len(articles) = 2
    /\ appError = NoAppError

(***************************************************************************)
(* Properties of the merges.                                               *)
(***************************************************************************)
\* the place of feed i of the batch in the order the fetches settled in
SettledAt(i) == CHOOSE p \in 1..Len(batch.order) : batch.order[p] = i

FulfilledAt == {i \in 1..Len(batch.results) : batch.results[i].status = "fulfilled"}

\* the articles arts, each with the rank r
Ranked(arts, r) == {[art |-> arts[n], rank |-> r] : n \in 1..Len(arts)}

\* the articles of the fulfilled results, ranked by the time their fetch
\* settled at
BySettling ==
    UNION {Ranked(batch.results[i].articles, SettledAt(i)) : i \in FulfilledAt}

\* the articles of the fulfilled results, ranked by the place of their feed
\* in the feed list
ByListOrder ==
    UNION {Ranked(batch.results[i].articles, i) : i \in FulfilledAt}

\* the stored articles and, ranked above them, the fetched ones
StoredThenFetched(stored, fetched) ==
    Ranked(stored, 0) \cup Ranked(fetched, 1)

\* of the candidates with one link, the list kept holds the one of the
\* highest rank and no other
KeepsHighest(candidates, kept) ==
    \A c \in candidates :
        (\E k \in 1..Len(kept) : kept[k] = c.art)
            <=> ~\E d \in candidates :
                    d.art.link = c.art.link /\ d.rank > c.rank

\* addFeed resumes with a feed
AddMerges == adding.active /\ ~adding'.active /\ added'.status = "fulfilled"

\* C21 as claimed: in every merge, of the articles with one link the one
\* whose fetch settled last is kept and the others are dropped.
C21_MostRecentlyFetchedKept ==
    [][/\ Resumes => KeepsHighest(BySettling, articles')
       /\ AddMerges =>
              KeepsHighest(StoredThenFetched(articles, added'.articles),
                           articles')]_vars

\* C21, amended: in the merge of a batch, of the articles with one link the
\* one of the feed that is last in the feed list is kept, whatever order
\* the fetches settled in; in the merge of addFeed the fetched article is
\* kept and the stored one dropped.
C21_LastInListKept ==
    [][/\ Resumes => KeepsHighest(ByListOrder, articles')
       /\ AddMerges =>
              KeepsHighest(StoredThenFetched(articles, added'.articles),
                           articles')]_vars

\* the first feed of the list settled after the second, both with the
\* link l1, and the article of the second is the one stored
C21_Witness ==
    /\ BatchDone
    /\ batch.order = <<2, 1>>
    /\ batch.results[1].status = "fulfilled"
    /\ batch.results[2].status = "fulfilled"
    /\ \E k \in 1..Len(articles) :
          /\ articles[k].link = "l1"
          /\ articles[k].feedId = batch.feeds[2].id

(***************************************************************************)
(* Properties of concurrent fetchFeed calls.                               *)
(***************************************************************************)
RECURSIVE Alone(_, _)
\* the call st after k resumptions with no other call around
Alone(st, k) ==
    IF k = 0 \/ ~InFlight(st)
    THEN st
    ELSE Alone(Resume(st, net, 0, clock), k - 1)

\* an outcome with the ids of its articles blanked
ApartFromIds(out) ==
    [out EXCEPT !.value.articles =
        [i \in 1..Len(@) |-> [@[i] EXCEPT !.id = 0]]]

\* where a call stands and what it settled with, apart from ids
Progress(st) == [st EXCEPT !.outcome = ApartFromIds(@)]

C33_LoadingIffInFlight == isLoading <=> Len(running) > 0

\* C32: no two feeds of the list have addresses that are equal once a
\* slash at the end is dropped.
C32_NoTwoFeedsOfOneUrl ==
    \A i \in 1..Len(feeds) :
        \A j \in 1..Len(feeds) :
            StripSlash(feeds[i].url) = StripSlash(feeds[j].url) => i = j

\* the refreshFeeds call at place i of the calls in flight resumes
RefreshResumesAt(i) ==
    /\ i \in 1..Len(running)
    /\ running[i].kind = "refresh"
    /\ running' = RemoveAt(running, i)

\* C31: when a refreshFeeds call resumes, the stored articles of a feed
\* that was added to the list after the call began keep their links in
\* the article list.
C31_AddedArticlesSurviveRefresh ==
    [][\A i \in 1..Len(running) :
          RefreshResumesAt(i) =>
              \A k \in 1..Len(articles) :
                  (/\ articles[k].feedId \in FeedIdsOf(feeds)
                   /\ articles[k].feedId \notin FeedIdsOf(running[i].feeds))
                      => articles[k].link \in LinksOf(articles')]_vars

\* the links of the notifications raised
Noticed(i) == notices[i]

\* C34: while isFirstLoad is set no step raises a notification; a
\* notification is raised only for links of the result stored that were
\* not known; the links of the stored articles are known; no link is in
\* two notifications.
C34_NotifiedOncePerLink ==
    /\ [](/\ LinksOf(articles) \subseteq known
          /\ \A i \in 1..Len(notices) :
                \A j \in 1..Len(notices) :
                    Noticed(i) \cap Noticed(j) # {} => i = j)
    /\ [][/\ isFirstLoad => notices' = notices
          /\ notices' # notices =>
                /\ Len(notices') = Len(notices) + 1
                /\ notices'[Len(notices')] # {}
                /\ notices'[Len(notices')] \cap known = {}
                /\ notices'[Len(notices')] \subseteq LinksOf(articles')
                /\ notices'[Len(notices')] \subseteq known']_vars

\* l2 was notified by one refresh; another refresh that began with
\* notifications enabled is in flight, and l1 was not notified because it
\* came with the first load
C34_Witness ==
    /\ notices = <<{"l2"}>>
    /\ known = {"l1", "l2"}
    /\ ~isFirstLoad
    /\ \E i \in 1..Len(running) :
          running[i].kind = "refresh" /\ running[i].enabled

====
